---- MODULE Spec2Model ----
(***************************************************************************)
(* gittuf: policy state (root / targets / delegations), its verification   *)
(* and path resolution, and the repository side: the policy ref, the       *)
(* Reference State Log (RSL) and the operations that move them.            *)
(*                                                                         *)
(* Twelve specifications share the module:                                 *)
(*   SpecPolicy  one policy State drawn from bounded families; State.Verify,*)
(*               State.FindPublicKeysForPath (the resolver loop one        *)
(*               iteration per step), FindAuthorizedSigningKeyIDs and      *)
(*               State.PublicKeys run on it.                               *)
(*   Spec        a repository driven by one caller at a time: namespace    *)
(*               initialisation, State.Commit, branch commits, RSL appends *)
(*               and GetStateForCommit.                                    *)
(*   SpecConc    two writers whose State.Commit calls and RSL annotations  *)
(*               interleave at every read and write of a reference.        *)
(*   SpecCommit  two writers whose gitinterface.Commit calls on the branch *)
(*               refs interleave in the same way.                          *)
(*   SpecLoad    State.Commit followed by LoadStateForEntry, LoadState and *)
(*               LoadCurrentState, also on policy commits made elsewhere.  *)
(*   SpecRoot    InitializeRootMetadata, AddTargetsKey and DeleteTargetsKey*)
(*               on one root metadata object.                              *)
(*   SpecSync    a local and a remote repository: Push, Fetch,             *)
(*               CloneAndFetch and the steps of Clone.                     *)
(*   SpecDiff    one commit with up to two parents;                        *)
(*               GetFilePathsChangedByCommit runs on it.                   *)
(*   SpecVerify  SpecPolicy with the delegation loop of State.Verify run   *)
(*               one iteration per step, under weak fairness.              *)
(*   SpecNamespace  two callers whose InitializeNamespace and State.Commit *)
(*               calls interleave at every read and write.                 *)
(*   SpecEntries an RSL holding policy, branch and annotation entries;     *)
(*               LoadStateForEntry and LoadState run on each entry.        *)
(*   SpecSig     one commit signature and one key; VerifyCommitSignature   *)
(*               runs on them.                                             *)
(***************************************************************************)
EXTENDS Integers, Sequences, FiniteSets, TLC

VARIABLES
    \* ---- SpecPolicy -----------------------------------------------------
    pState,       \* the policy.State under test
    verifyResult, \* what State.Verify returned on pState ("none": not called)
    fpPc,         \* FindPublicKeysForPath: "idle" | "loop" | "done"
                  \* ("answered": FindAuthorizedSigningKeyIDs has returned,
                  \*  "keys": State.PublicKeys has returned)
    fpPath,       \* its path argument
    fpQueue,      \* delegationsQueue
    fpAllKeys,    \* allPublicKeys (the key ids the map holds)
    fpTrusted,    \* trustedKeys
    fpErr,        \* the error it returned ("ok": nil, "panic": run-time panic)
    fpSteps,      \* delegations popped so far
    fpCut,        \* history: how many entries at the tail of fpQueue were
                  \* siblings left over when a terminating delegation matched
    fpCutUsed,    \* history: such an entry was popped, matched and gave keys
    faResult,     \* what FindAuthorizedSigningKeyIDs returned on pState
                  \* (fpPc = "keys": what State.PublicKeys returned)
    rootMeta,     \* the root metadata object a caller edits (None: not created)
    rootRet,      \* what the last root metadata operation returned
    sync,         \* a local and a remote repository and the last sync call
    clone,        \* where a Clone call stands and what it did so far
    diff,         \* a commit (its tree and its parents' trees) and the paths
                  \* GetFilePathsChangedByCommit returned for it
    sig,          \* a commit's signature, a key and what
                  \* VerifyCommitSignature returned for them
    vl,           \* State.Verify on pState, one loop iteration per step: its
                  \* queue, the envelopes not consumed yet, its keys
    \* ---- Spec -----------------------------------------------------------
    refs,         \* reference name -> hash, for the references that exist
    commits,      \* hash -> commit object, for the commits in the object store
    trees,        \* policy root trees written to the object store
    pc,           \* per caller: where its current call stands
    loc,          \* per caller: the locals of its current call
    ret,          \* per caller: what its last finished call returned
    signFailures  \* how many times signing a commit has failed

policyVars == <<pState, verifyResult, fpPc, fpPath, fpQueue, fpAllKeys,
                fpTrusted, fpErr, fpSteps, fpCut, fpCutUsed, faResult,
                rootMeta, rootRet, sync, clone, diff, sig, vl>>
repoVars == <<refs, commits, trees, pc, loc, ret, signFailures>>
vars == <<policyVars, repoVars>>

Range(f) == {f[x] : x \in DOMAIN f}

\* Optional values (Go pointers that may be nil).
None == <<>>
Some(x) == <<x>>

----------------------------------------------------------------------------
(* Names fixed by the program.                                             *)

PolicyRef == "refs/gittuf/policy"
RSLRef == "refs/gittuf/reference-state-log"
RootRoleName == "root"
TargetsRoleName == "targets"
AllowRuleName == "allow-rule"

----------------------------------------------------------------------------
(* The universe the bounded inputs are drawn from.                         *)

Keys == {"K1", "K2"}
NoKey == "nil"
DelegationNames == {"A", "B", "C"}
AllPaths == {"p1", "p2"}

\* The paths each delegation name's patterns match.
PathsOf(name) ==
    IF name = "A" THEN {"p1", "p2"}
    ELSE IF name = "B" THEN {"p1"}
    ELSE IF name = "C" THEN {"p2"}
    ELSE AllPaths

----------------------------------------------------------------------------
(* tuf metadata and DSSE envelopes.                                        *)

Role(keyIDs, threshold) == [KeyIDs |-> keyIDs, Threshold |-> threshold]

Delegation(name, keyIDs, threshold, terminating) ==
    [Name |-> name, KeyIDs |-> keyIDs, Threshold |-> threshold,
     Paths |-> PathsOf(name), Terminating |-> terminating]

AllowRule == Delegation(AllowRuleName, <<>>, 1, FALSE)

\* Delegations is a pointer in TargetsMetadata: None when absent.
Delegations(keys, roles) == [Keys |-> keys, Roles |-> roles]
TargetsMetadata(delegations) == [Delegations |-> delegations]
RootMetadata(keys, roles) == [Keys |-> keys, Roles |-> roles]

\* An envelope: the payload and the key ids whose signature over it is valid.
Envelope(payload, signedBy) == [Payload |-> payload, SignedBy |-> signedBy]

State(rootEnv, targetsEnv, delegationEnvs, rootPublicKeys) ==
    [RootEnvelope |-> rootEnv, TargetsEnvelope |-> targetsEnv,
     DelegationEnvelopes |-> delegationEnvs, RootPublicKeys |-> rootPublicKeys]

\* delegation.Matches(path)
Matches(delegation, path) == path \in delegation.Paths

\* Go map lookups: the zero value for a missing key.
KeyOf(keys, keyID) == IF keyID \in keys THEN keyID ELSE NoKey
KeysOf(keys, keyIDs) == [i \in 1..Len(keyIDs) |-> KeyOf(keys, keyIDs[i])]
RoleOf(rootMetadata, name) ==
    IF name \in DOMAIN rootMetadata.Roles THEN rootMetadata.Roles[name]
    ELSE Role(<<>>, 0)

\* dsse.VerifyEnvelope: at least threshold >= 1 distinct verifiers accept.
VerifyEnvelope(envelope, verifiers, threshold) ==
    LET accepted == {k \in Range(verifiers) : k \in envelope.SignedBy}
    IN  IF threshold >= 1 /\ Cardinality(accepted) >= threshold
        THEN "ok" ELSE "below_threshold"

\* signerverifier.NewSignerVerifierFromTUFKey over a list of looked-up keys:
\* a nil key gives no verifier.
NewSignerVerifiers(keys) == IF NoKey \in Range(keys) THEN "err_key" ELSE "ok"

\* TargetsMetadata.Validate: non-empty names, thresholds >= 1, names unique
\* within the list, patterns non-empty.
Validate(metadata) ==
    IF metadata.Delegations = None THEN "ok"
    ELSE LET roles == metadata.Delegations[1].Roles
         IN  IF /\ \A i \in DOMAIN roles :
                      /\ roles[i].Name # ""
                      /\ roles[i].Threshold >= 1
                      /\ roles[i].Paths # {}
                /\ \A i, j \in DOMAIN roles :
                      roles[i].Name = roles[j].Name => i = j
             THEN "ok" ELSE "err_validate"

----------------------------------------------------------------------------
(* State accessors.                                                        *)

GetRootMetadata(s) == s.RootEnvelope.Payload

HasTargetsRole(s, roleName) ==
    IF roleName = TargetsRoleName THEN s.TargetsEnvelope # None
    ELSE roleName \in DOMAIN s.DelegationEnvelopes

\* Some(metadata), or None where the Go code dereferences a nil envelope
\* or returns ErrMetadataNotFound.
GetTargetsMetadata(s, roleName) ==
    IF roleName = TargetsRoleName
    THEN IF s.TargetsEnvelope = None THEN None
         ELSE Some(s.TargetsEnvelope[1].Payload)
    ELSE IF roleName \in DOMAIN s.DelegationEnvelopes
         THEN Some(s.DelegationEnvelopes[roleName].Payload)
         ELSE None

----------------------------------------------------------------------------
(* State.Verify                                                            *)

\* The threshold of the root envelope's verification.
RootThreshold_AnyOne(s) == 1
RootThreshold(s) == Len(s.RootPublicKeys)

\* The loop over delegationsQueue: queue, the envelopes not consumed yet,
\* and delegationKeys.
RECURSIVE VerifyDelegations(_, _, _)
VerifyDelegations(queue, envelopes, delegationKeys) ==
    IF queue = <<>>
    THEN IF DOMAIN envelopes # {} THEN "dangling" ELSE "ok"
    ELSE
      LET delegation == Head(queue)
          rest == Tail(queue)
      IN
      IF delegation.Name \notin DOMAIN envelopes
      THEN VerifyDelegations(rest, envelopes, delegationKeys)
      ELSE
        LET envelope == envelopes[delegation.Name]
            remaining == [n \in DOMAIN envelopes \ {delegation.Name} |-> envelopes[n]]
            verifiers == KeysOf(delegationKeys, delegation.KeyIDs)
            metadata == envelope.Payload
        IN
        IF NewSignerVerifiers(verifiers) # "ok" THEN "err_key"
        ELSE IF VerifyEnvelope(envelope, verifiers, delegation.Threshold) # "ok"
        THEN "below_threshold"
        ELSE IF Validate(metadata) # "ok" THEN "err_validate"
        ELSE IF metadata.Delegations = None
        THEN VerifyDelegations(rest, remaining, delegationKeys)
        ELSE VerifyDelegations(rest \o metadata.Delegations[1].Roles, remaining,
                               delegationKeys \cup metadata.Delegations[1].Keys)

Verify(s) ==
    LET rootMetadata == GetRootMetadata(s)
        targetsRole == RoleOf(rootMetadata, TargetsRoleName)
        targetsVerifiers == KeysOf(rootMetadata.Keys, targetsRole.KeyIDs)
    IN
    IF VerifyEnvelope(s.RootEnvelope, s.RootPublicKeys, RootThreshold(s)) # "ok"
    THEN "below_threshold"
    ELSE IF s.TargetsEnvelope = None THEN "ok"
    ELSE IF NewSignerVerifiers(targetsVerifiers) # "ok" THEN "err_key"
    ELSE IF VerifyEnvelope(s.TargetsEnvelope[1], targetsVerifiers,
                           targetsRole.Threshold) # "ok"
    THEN "below_threshold"
    ELSE IF DOMAIN s.DelegationEnvelopes = {} THEN "ok"
    ELSE IF Validate(s.TargetsEnvelope[1].Payload) # "ok" THEN "err_validate"
    ELSE IF s.TargetsEnvelope[1].Payload.Delegations = None THEN "panic"
    ELSE VerifyDelegations(s.TargetsEnvelope[1].Payload.Delegations[1].Roles,
                           s.DelegationEnvelopes,
                           s.TargetsEnvelope[1].Payload.Delegations[1].Keys)

----------------------------------------------------------------------------
(* State.FindPublicKeysForPath, one loop iteration per step.               *)

MaxSteps == 8

\* Line 702: the children of a non-terminating delegation go ahead of the
\* remaining queue, without the last entry of their list.
PushChildren_Behind(roles, rest) == rest \o SubSeq(roles, 1, Len(roles) - 1)
PushChildren(roles, rest) == SubSeq(roles, 1, Len(roles) - 1) \o rest

\* Line 697: a terminating delegation's children replace the queue.
ReplaceQueue(roles, rest) == roles

\* Lines 681-684: the keys a matching delegation adds to trustedKeys.
TrustedOf_None(allPublicKeys, delegation) == <<>>
TrustedOf(allPublicKeys, delegation) == KeysOf(allPublicKeys, delegation.KeyIDs)

FindReturn(err) ==
    /\ fpPc' = "done"
    /\ fpErr' = err
    /\ UNCHANGED <<fpQueue, fpAllKeys, fpSteps, fpCut, fpCutUsed>>

FindStart(path) ==
    /\ fpPc = "idle"
    /\ verifyResult # "none"
    /\ fpPath' = path
    /\ LET v == Verify(pState)
           tm == GetTargetsMetadata(pState, TargetsRoleName)
       IN  IF v # "ok"
           THEN FindReturn(v) /\ UNCHANGED fpTrusted
           ELSE IF tm = None \/ tm[1].Delegations = None
           THEN FindReturn("panic") /\ UNCHANGED fpTrusted
           ELSE /\ fpPc' = "loop"
                /\ fpAllKeys' = tm[1].Delegations[1].Keys
                /\ fpQueue' = tm[1].Delegations[1].Roles
                /\ fpTrusted' = <<>>
                /\ UNCHANGED <<fpErr, fpSteps, fpCut, fpCutUsed>>
    /\ UNCHANGED <<pState, verifyResult, faResult, rootMeta, rootRet, sync, clone, diff, sig, vl, repoVars>>

FindStep ==
    /\ fpPc = "loop"
    /\ Len(fpQueue) <= 1 \/ fpSteps < MaxSteps
    /\ IF Len(fpQueue) <= 1
       THEN FindReturn("ok") /\ UNCHANGED fpTrusted
       ELSE
         LET delegation == Head(fpQueue)
             rest == Tail(fpQueue)
             matched == Matches(delegation, fpPath)
             barred == Len(fpQueue) <= fpCut
             sub == GetTargetsMetadata(pState, delegation.Name)
         IN
         /\ fpSteps' = fpSteps + 1
         /\ fpTrusted' = IF matched THEN fpTrusted \o TrustedOf(fpAllKeys, delegation)
                         ELSE fpTrusted
         /\ fpCutUsed' = (fpCutUsed \/ (matched /\ barred /\ delegation.KeyIDs # <<>>))
         /\ IF ~matched \/ ~HasTargetsRole(pState, delegation.Name)
            THEN /\ fpQueue' = rest
                 /\ fpCut' = IF matched /\ delegation.Terminating THEN Len(rest)
                             ELSE IF barred THEN Len(rest) ELSE fpCut
                 /\ UNCHANGED <<fpPc, fpErr, fpAllKeys>>
            ELSE IF sub = None \/ sub[1].Delegations = None
            THEN /\ fpPc' = "done"
                 /\ fpErr' = "panic"
                 /\ UNCHANGED <<fpQueue, fpAllKeys, fpCut>>
            ELSE IF delegation.Terminating
            THEN /\ fpQueue' = ReplaceQueue(sub[1].Delegations[1].Roles, rest)
                 /\ fpAllKeys' = fpAllKeys \cup sub[1].Delegations[1].Keys
                 /\ fpCut' = IF barred THEN Len(fpQueue') ELSE 0
                 /\ UNCHANGED <<fpPc, fpErr>>
            ELSE IF sub[1].Delegations[1].Roles = <<>>
            THEN /\ fpPc' = "done"
                 /\ fpErr' = "panic"
                 /\ UNCHANGED <<fpQueue, fpCut>>
                 /\ fpAllKeys' = fpAllKeys \cup sub[1].Delegations[1].Keys
            ELSE /\ fpQueue' = PushChildren(sub[1].Delegations[1].Roles, rest)
                 /\ fpAllKeys' = fpAllKeys \cup sub[1].Delegations[1].Keys
                 /\ fpCut' = IF barred THEN Len(fpQueue') ELSE fpCut
                 /\ UNCHANGED <<fpPc, fpErr>>
    /\ UNCHANGED <<pState, verifyResult, fpPath, faResult, rootMeta, rootRet, sync, clone, diff, sig, vl, repoVars>>

\* The map the loop of State.Verify deletes from (line 798), as it stands
\* when Verify returns.
RECURSIVE ConsumeDelegations(_, _, _)
ConsumeDelegations(queue, envelopes, delegationKeys) ==
    IF queue = <<>> THEN envelopes
    ELSE
      LET delegation == Head(queue)
          rest == Tail(queue)
      IN
      IF delegation.Name \notin DOMAIN envelopes
      THEN ConsumeDelegations(rest, envelopes, delegationKeys)
      ELSE
        LET envelope == envelopes[delegation.Name]
            remaining == [n \in DOMAIN envelopes \ {delegation.Name} |-> envelopes[n]]
            verifiers == KeysOf(delegationKeys, delegation.KeyIDs)
            metadata == envelope.Payload
        IN
        IF NewSignerVerifiers(verifiers) # "ok" THEN remaining
        ELSE IF VerifyEnvelope(envelope, verifiers, delegation.Threshold) # "ok"
        THEN remaining
        ELSE IF Validate(metadata) # "ok" THEN remaining
        ELSE IF metadata.Delegations = None
        THEN ConsumeDelegations(rest, remaining, delegationKeys)
        ELSE ConsumeDelegations(rest \o metadata.Delegations[1].Roles, remaining,
                                delegationKeys \cup metadata.Delegations[1].Keys)

\* Whether Verify gets as far as its loop (lines 713-778).
ReachesLoop(s) ==
    /\ VerifyEnvelope(s.RootEnvelope, s.RootPublicKeys, RootThreshold(s)) = "ok"
    /\ s.TargetsEnvelope # None
    /\ LET targetsRole == RoleOf(GetRootMetadata(s), TargetsRoleName)
           targetsVerifiers == KeysOf(GetRootMetadata(s).Keys, targetsRole.KeyIDs)
       IN  /\ NewSignerVerifiers(targetsVerifiers) = "ok"
           /\ VerifyEnvelope(s.TargetsEnvelope[1], targetsVerifiers,
                             targetsRole.Threshold) = "ok"
    /\ DOMAIN s.DelegationEnvelopes # {}
    /\ Validate(s.TargetsEnvelope[1].Payload) = "ok"
    /\ s.TargetsEnvelope[1].Payload.Delegations # None

\* Lines 757-760: the loop works on a copy of s.DelegationEnvelopes, so
\* what it deletes does not leave the state's own map.
DelegationEnvelopesAfter_Shared(s, working) == working
DelegationEnvelopesAfter(s, working) == s.DelegationEnvelopes

\* The state as State.Verify leaves it.
StateAfterVerify(s) ==
    IF ~ReachesLoop(s) THEN s
    ELSE [s EXCEPT !.DelegationEnvelopes =
            DelegationEnvelopesAfter(s,
                ConsumeDelegations(s.TargetsEnvelope[1].Payload.Delegations[1].Roles,
                                   s.DelegationEnvelopes,
                                   s.TargetsEnvelope[1].Payload.Delegations[1].Keys))]

VerifyCall ==
    /\ fpPc = "idle"
    /\ verifyResult' = Verify(pState)
    /\ pState' = StateAfterVerify(pState)
    /\ UNCHANGED <<fpPc, fpPath, fpQueue, fpAllKeys, fpTrusted, fpErr,
                   fpSteps, fpCut, fpCutUsed, faResult, rootMeta, rootRet, sync, clone, diff, sig, vl, repoVars>>

----------------------------------------------------------------------------
(* State.FindAuthorizedSigningKeyIDs                                       *)

MaxSearch == 16

\* The role names callers ask about: the two top-level roles, the
\* delegations, and a name no metadata has.
RoleNames == {RootRoleName, TargetsRoleName} \cup DelegationNames \cup {"D"}

Answer(keys, err) == [keys |-> keys, err |-> err]
NoAnswer == Answer(None, "none")

\* findDelegationEntry, the loop of lines 1020-1036: breadth first over the
\* queue, without a record of what was visited ("diverges": the queue is
\* still not empty after MaxSearch entries).
RECURSIVE SearchDelegationEntry(_, _, _, _)
SearchDelegationEntry(s, roleName, queue, popped) ==
    IF queue = <<>> THEN Answer(None, "delegation_not_found")
    ELSE IF popped >= MaxSearch THEN Answer(None, "diverges")
    ELSE
      LET delegation == Head(queue)
          rest == Tail(queue)
      IN
      IF delegation.Name = roleName THEN Answer(Some(delegation.KeyIDs), "ok")
      ELSE IF ~HasTargetsRole(s, delegation.Name)
      THEN SearchDelegationEntry(s, roleName, rest, popped + 1)
      ELSE IF delegation.Name \notin DOMAIN s.DelegationEnvelopes
      THEN Answer(None, "panic")
      ELSE IF s.DelegationEnvelopes[delegation.Name].Payload.Delegations = None
      THEN Answer(None, "panic")
      ELSE SearchDelegationEntry(s, roleName,
               rest \o s.DelegationEnvelopes[delegation.Name].Payload.Delegations[1].Roles,
               popped + 1)

\* findDelegationEntry, lines 997-1018.
findDelegationEntry(s, roleName) ==
    LET topLevelTargetsMetadata == GetTargetsMetadata(s, TargetsRoleName) IN
    IF topLevelTargetsMetadata = None THEN Answer(None, "panic")
    ELSE IF topLevelTargetsMetadata[1].Delegations = None THEN Answer(None, "panic")
    ELSE SearchDelegationEntry(s, roleName,
                               topLevelTargetsMetadata[1].Delegations[1].Roles, 0)

\* Lines 631-653: what follows the verification.
AuthorizedSigningKeyIDs(s, roleName) ==
    LET rootMetadata == GetRootMetadata(s) IN
    IF roleName = RootRoleName
    THEN Answer(Some(RoleOf(rootMetadata, RootRoleName).KeyIDs), "ok")
    ELSE IF roleName = TargetsRoleName
    THEN IF TargetsRoleName \notin DOMAIN rootMetadata.Roles
         THEN Answer(None, "delegation_not_found")
         ELSE Answer(Some(rootMetadata.Roles[TargetsRoleName].KeyIDs), "ok")
    ELSE findDelegationEntry(s, roleName)

FindAuthorizedSigningKeyIDs_NoVerify(s, roleName) == AuthorizedSigningKeyIDs(s, roleName)

\* State.FindAuthorizedSigningKeyIDs, lines 626-654.
FindAuthorizedSigningKeyIDs(s, roleName) ==
    IF Verify(s) # "ok" THEN Answer(None, Verify(s))
    ELSE AuthorizedSigningKeyIDs(s, roleName)

FindAuthorizedCall(roleName) ==
    /\ fpPc = "idle"
    /\ verifyResult # "none"
    /\ faResult' = FindAuthorizedSigningKeyIDs(pState, roleName)
    /\ fpPc' = "answered"
    /\ UNCHANGED <<pState, verifyResult, fpPath, fpQueue, fpAllKeys, fpTrusted, fpErr,
                   fpSteps, fpCut, fpCutUsed, rootMeta, rootRet, sync, clone, diff, sig, vl, repoVars>>

----------------------------------------------------------------------------
(* State.PublicKeys                                                        *)

\* Lines 576-622. The map is the set of its key ids. A state without a
\* targets envelope gets the nil map and the nil error of line 598; a
\* targets document without delegations is dereferenced at line 604 or 615.
PublicKeys(s) ==
    IF s.TargetsEnvelope = None THEN Answer(None, "ok")
    ELSE IF GetTargetsMetadata(s, TargetsRoleName)[1].Delegations = None
    THEN Answer(None, "panic")
    ELSE IF \E roleName \in DOMAIN s.DelegationEnvelopes :
               GetTargetsMetadata(s, roleName)[1].Delegations = None
    THEN Answer(None, "panic")
    ELSE Answer(Some(Range(s.RootPublicKeys)
                     \cup GetRootMetadata(s).Keys
                     \cup GetTargetsMetadata(s, TargetsRoleName)[1].Delegations[1].Keys
                     \cup UNION {GetTargetsMetadata(s, roleName)[1].Delegations[1].Keys :
                                    roleName \in DOMAIN s.DelegationEnvelopes}),
                "ok")

PublicKeysCall ==
    /\ fpPc = "idle"
    /\ verifyResult # "none"
    /\ faResult' = PublicKeys(pState)
    /\ fpPc' = "keys"
    /\ UNCHANGED <<pState, verifyResult, fpPath, fpQueue, fpAllKeys, fpTrusted, fpErr,
                   fpSteps, fpCut, fpCutUsed, rootMeta, rootRet, sync, clone, diff, sig, vl, repoVars>>

----------------------------------------------------------------------------
(* The bounded families of policy states.                                  *)

GoodRootEnvelope ==
    Envelope(RootMetadata(Keys, (RootRoleName :> Role(<<"K1">>, 1))
                                @@ (TargetsRoleName :> Role(<<"K1">>, 1))),
             {"K1"})

Leaf == TargetsMetadata(Some(Delegations({}, <<AllowRule>>)))

\* The delegation envelopes of a state: A and B, each optional.
EnvMap(a, b) ==
    [n \in (IF a = None THEN {} ELSE {"A"}) \cup (IF b = None THEN {} ELSE {"B"})
        |-> IF n = "A" THEN a[1] ELSE b[1]]

\* Root and top-level targets signatures, keys and thresholds vary.
RootFamily ==
    LET top == TargetsMetadata(Some(Delegations(Keys,
                   <<Delegation("A", <<"K1">>, 1, FALSE), AllowRule>>)))
    IN
    { State(Envelope(RootMetadata(mk, (RootRoleName :> Role(<<"K1">>, 1)) @@ tr), rs),
            t, d, rk) :
        rk \in {<<>>, <<"K1">>, <<"K1", "K2">>},
        rs \in SUBSET Keys,
        mk \in {Keys, {"K1"}},
        tr \in {<<>>, (TargetsRoleName :> Role(<<"K1">>, 1)),
                (TargetsRoleName :> Role(<<"K1", "K2">>, 2)),
                (TargetsRoleName :> Role(<<"K2">>, 1))},
        t \in {None} \cup {Some(Envelope(top, sg)) : sg \in SUBSET Keys},
        d \in {EnvMap(None, None), EnvMap(Some(Envelope(Leaf, {"K1"})), None)} }

\* Delegation envelope signatures, delegation keys and thresholds vary.
DelegFamily ==
    LET aDocs == {Leaf,
                  TargetsMetadata(Some(Delegations(Keys,
                      <<Delegation("B", <<"K2">>, 1, FALSE), AllowRule>>)))}
        aChoices == {None} \cup {Some(Envelope(m, sg)) : m \in aDocs, sg \in SUBSET Keys}
        bChoices == {None} \cup {Some(Envelope(Leaf, sg)) : sg \in SUBSET Keys}
        aRoles == {Role(<<"K1">>, 1), Role(<<"K1", "K2">>, 2),
                   Role(<<"K1", "K2">>, 1), Role(<<"K1">>, 0)}
    IN
    { State(GoodRootEnvelope,
            Some(Envelope(TargetsMetadata(Some(Delegations(tk,
                     <<Delegation("A", ra.KeyIDs, ra.Threshold, FALSE),
                       Delegation("B", <<"K1">>, 1, FALSE), AllowRule>>))),
                 {"K1"})),
            EnvMap(a, b), <<"K1">>) :
        tk \in {Keys, {"K1"}}, ra \in aRoles, a \in aChoices, b \in bChoices }

\* The delegation graph varies; every envelope is signed by every key.
TopoFamily ==
    LET topEntries == {Delegation(n, <<"K1">>, 1, t) :
                          n \in DelegationNames, t \in BOOLEAN}
        subEntries == {Delegation(n, <<"K2">>, 1, t) :
                          n \in DelegationNames, t \in BOOLEAN}
        tails == {<<>>, <<AllowRule>>}
        topLists == {<<>>} \cup {<<e>> : e \in topEntries}
                    \cup {l \in topEntries \X topEntries : l[1].Name # l[2].Name}
        subLists == {<<>>} \cup {<<e>> : e \in subEntries}
        subDocs == {TargetsMetadata(None)}
                   \cup {TargetsMetadata(Some(Delegations(Keys, l \o tl))) :
                            l \in subLists, tl \in tails}
        subChoices == {None} \cup {Some(Envelope(m, Keys)) : m \in subDocs}
    IN
    { State(GoodRootEnvelope,
            Some(Envelope(TargetsMetadata(Some(Delegations(Keys, l \o tl))), {"K1"})),
            EnvMap(a, b), <<"K1">>) :
        l \in topLists, tl \in tails, a \in subChoices, b \in subChoices }

PolicyStates == RootFamily \cup DelegFamily \cup TopoFamily

\* The state of createTestStateWithOnlyRoot, and two policies on top of it.
RootOnlyState == State(GoodRootEnvelope, None, EnvMap(None, None), <<"K1">>)

----------------------------------------------------------------------------
(* SpecPolicy                                                              *)

RepoIdle ==
    /\ refs = <<>>
    /\ commits = <<>>
    /\ trees = {}
    /\ pc = <<>>
    /\ loc = <<>>
    /\ ret = <<>>
    /\ signFailures = 0

\* No commit is being diffed, no signature is being verified.
DiffIdle == diff = [tree |-> <<>>, parents |-> <<>>, ret |-> None]
SigIdle ==
    sig = [signature |-> None, key |-> [KeyType |-> "gpg", KeyID |-> "K1"], ret |-> "none"]
VerifyIdle ==
    vl = [pc |-> "idle", queue |-> <<>>, envelopes |-> <<>>, keys |-> {},
          result |-> "none", consumed |-> <<>>]

InitPolicy ==
    /\ pState \in PolicyStates
    /\ verifyResult = "none"
    /\ fpPc = "idle"
    /\ fpPath = "p1"
    /\ fpQueue = <<>>
    /\ fpAllKeys = {}
    /\ fpTrusted = <<>>
    /\ fpErr = "ok"
    /\ fpSteps = 0
    /\ fpCut = 0
    /\ fpCutUsed = FALSE
    /\ faResult = NoAnswer
    /\ rootMeta = None
    /\ rootRet = [op |-> "none", arg |-> "", err |-> "ok", value |-> None]
    /\ sync = [local |-> [refs |-> <<>>, tracker |-> <<>>, objs |-> {}],
               remote |-> [refs |-> <<>>, tracker |-> <<>>, objs |-> {}],
               parents |-> <<>>,
               ret |-> [op |-> "none", ref |-> "", refs |-> {}, err |-> "ok",
                        nothing |-> FALSE]]
    /\ clone = [pc |-> "idle", dir |-> "absent", branch |-> "", did |-> <<>>,
                verified |-> "none", err |-> "none"]
    /\ DiffIdle
    /\ SigIdle
    /\ VerifyIdle
    /\ RepoIdle

NextPolicy ==
    \/ VerifyCall
    \/ \E path \in AllPaths : FindStart(path)
    \/ FindStep
    \/ \E roleName \in RoleNames : FindAuthorizedCall(roleName)
    \/ PublicKeysCall

SpecPolicy == InitPolicy /\ [][NextPolicy]_vars

----------------------------------------------------------------------------
(* Notions the properties of Verify and FindPublicKeysForPath are stated   *)
(* with.                                                                   *)

\* How many distinct key ids of keyIDs validly signed the envelope.
ValidSignatures(envelope, keyIDs) ==
    Cardinality({k \in Range(keyIDs) : k \in envelope.SignedBy})

\* The roles list of a targets document ("no children" when absent).
RolesOf(metadata) ==
    IF metadata.Delegations = None THEN <<>> ELSE metadata.Delegations[1].Roles

TopRoles(s) ==
    IF s.TargetsEnvelope = None THEN <<>> ELSE RolesOf(s.TargetsEnvelope[1].Payload)

\* The names of the delegation envelopes reachable from the top-level
\* targets metadata through delegation entries.
RECURSIVE ReachableFrom(_, _)
ReachableFrom(s, names) ==
    LET more == {n \in DOMAIN s.DelegationEnvelopes :
                    \/ \E i \in DOMAIN TopRoles(s) : TopRoles(s)[i].Name = n
                    \/ \E m \in names :
                          \E i \in DOMAIN RolesOf(s.DelegationEnvelopes[m].Payload) :
                              RolesOf(s.DelegationEnvelopes[m].Payload)[i].Name = n}
    IN  IF more = names THEN names ELSE ReachableFrom(s, more)

ReachableEnvelopes(s) == ReachableFrom(s, {})

HasDangling(s) == DOMAIN s.DelegationEnvelopes # ReachableEnvelopes(s)

\* Every delegation entry, in the top-level targets metadata or in a
\* delegation envelope of the state, that names the envelope n.
ParentEntries(s, n) ==
    {TopRoles(s)[i] : i \in {j \in DOMAIN TopRoles(s) : TopRoles(s)[j].Name = n}}
    \cup UNION {
        {RolesOf(s.DelegationEnvelopes[m].Payload)[i] :
            i \in {j \in DOMAIN RolesOf(s.DelegationEnvelopes[m].Payload) :
                      RolesOf(s.DelegationEnvelopes[m].Payload)[j].Name = n}} :
        m \in DOMAIN s.DelegationEnvelopes}

\* The delegation entries reachable from the top-level targets metadata.
ReachableDelegations(s) ==
    Len(TopRoles(s))
    + (LET names == ReachableEnvelopes(s)
           RECURSIVE Sum(_)
           Sum(ns) == IF ns = {} THEN 0
                      ELSE LET n == CHOOSE x \in ns : TRUE
                           IN  Len(RolesOf(s.DelegationEnvelopes[n].Payload))
                               + Sum(ns \ {n})
       IN  Sum(names))

\* A roles list without its reserved final entry.
AllButLast(roles) == IF roles = <<>> THEN <<>> ELSE SubSeq(roles, 1, Len(roles) - 1)

\* The pre-order depth-first walk of the delegation tree for a path: the
\* keys of each matching delegation, then those of its children, then
\* those of its following siblings; a terminating delegation whose
\* children were walked ends the walk.
RECURSIVE Walk(_, _, _, _, _)
Walk(s, path, entries, keys, depth) ==
    IF entries = <<>> \/ depth = 0
    THEN [trusted |-> <<>>, keys |-> keys, stop |-> FALSE]
    ELSE
      LET d == Head(entries)
          own == KeysOf(keys, d.KeyIDs)
      IN
      IF ~Matches(d, path) THEN Walk(s, path, Tail(entries), keys, depth)
      ELSE IF d.Name \notin DOMAIN s.DelegationEnvelopes
      THEN LET r == Walk(s, path, Tail(entries), keys, depth)
           IN  [r EXCEPT !.trusted = own \o r.trusted]
      ELSE
        LET sub == s.DelegationEnvelopes[d.Name].Payload
            subKeys == IF sub.Delegations = None THEN {} ELSE sub.Delegations[1].Keys
            c == Walk(s, path, AllButLast(RolesOf(sub)), keys \cup subKeys, depth - 1)
        IN
        IF d.Terminating \/ c.stop
        THEN [trusted |-> own \o c.trusted, keys |-> c.keys, stop |-> TRUE]
        ELSE LET r == Walk(s, path, Tail(entries), c.keys, depth)
             IN  [r EXCEPT !.trusted = own \o c.trusted \o r.trusted]

PreOrderKeys(s, path) ==
    Walk(s, path, AllButLast(TopRoles(s)),
         s.TargetsEnvelope[1].Payload.Delegations[1].Keys, MaxSteps + 1).trusted

\* Scenario "Path resolution": [main (key Kg), allow-rule]; B plays main,
\* p1 git:refs/heads/main, p2 git:refs/heads/unprotected, K1 Kg.
ScenarioState ==
    State(GoodRootEnvelope,
          Some(Envelope(TargetsMetadata(Some(Delegations(Keys,
                   <<Delegation("B", <<"K1">>, 1, FALSE), AllowRule>>))), {"K1"})),
          EnvMap(None, None), <<"K1">>)

----------------------------------------------------------------------------
(* Properties of SpecPolicy.                                               *)

\* C1: State.Verify succeeds only if the targets envelope carries at least
\* root.roles[targets].threshold valid signatures of distinct keys listed
\* in root.roles[targets], and every delegation envelope carries at least
\* the threshold of valid signatures of the key ids of each delegation
\* entry that names it in a parent metadata.
C1_ChainOfTrust ==
    verifyResult = "ok" =>
        /\ pState.TargetsEnvelope # None =>
              LET role == RoleOf(GetRootMetadata(pState), TargetsRoleName)
              IN  /\ role.Threshold >= 1
                  /\ ValidSignatures(pState.TargetsEnvelope[1], role.KeyIDs)
                        >= role.Threshold
        /\ \A n \in DOMAIN pState.DelegationEnvelopes :
              \A d \in ParentEntries(pState, n) :
                  ValidSignatures(pState.DelegationEnvelopes[n], d.KeyIDs)
                      >= d.Threshold

\* C2: State.Verify succeeds only if every key of RootPublicKeys validly
\* signed the root envelope; it fails when RootPublicKeys is empty and
\* when the root envelope carries no signature.
C2_RootSignedByAll ==
    verifyResult # "none" =>
        /\ verifyResult = "ok" =>
              \A i \in DOMAIN pState.RootPublicKeys :
                  pState.RootPublicKeys[i] \in pState.RootEnvelope.SignedBy
        /\ pState.RootPublicKeys = <<>> => verifyResult # "ok"
        /\ pState.RootEnvelope.SignedBy = {} => verifyResult # "ok"

C2_Witness ==
    /\ verifyResult = "ok"
    /\ Len(pState.RootPublicKeys) = 2

\* C3: State.Verify rejects every state that holds a delegation envelope
\* no delegation reachable from the top-level targets metadata names, with
\* dangling_delegation_metadata unless an earlier check of Verify failed;
\* this includes states with delegation envelopes and no targets envelope.
C3_DanglingRejected ==
    (verifyResult # "none" /\ HasDangling(pState)) =>
        verifyResult \in {"dangling", "below_threshold", "err_key",
                          "err_validate", "panic"}

\* C4: once a terminating delegation has matched the path, no delegation
\* that followed it in its parent's list, and no remaining sibling of its
\* ancestors, adds keys to the result of FindPublicKeysForPath.
C4_TerminatingPrunes == ~fpCutUsed

C6_StepsBounded == fpSteps <= ReachableDelegations(pState)

----------------------------------------------------------------------------
(* The repository: references, commit objects, the policy tree.            *)

\* plumbing.ZeroHash. A hash is <<class, n>>: the n-th object of its class
\* written to the object store.
ZeroHash == <<>>

MaxPolicyCommits == 2
MaxBranchCommits == 2
MaxEntries == 4
MaxSignFailures == 1

Callers == {"c1", "c2"}
SeqCallers == {"c1"}
BranchRefs == {"refs/heads/main", "refs/heads/feature"}

EmptyTree == <<>>

\* A commit object. kind tells what its message parses as: "commit" (no RSL
\* entry), "rsl_ref" (RSL Reference Entry, with refName and targetID) or
\* "rsl_annot" (RSL Annotation Entry).
CommitObject(kind, tree, refName, targetID) ==
    [kind |-> kind, parent |-> ZeroHash, tree |-> tree,
     refName |-> refName, targetID |-> targetID]

\* gitinterface.CreateCommitObject: the parent is set unless it is zero.
CreateCommitObject(obj, parentHash) == [obj EXCEPT !.parent = parentHash]

\* rsl.NewReferenceEntry(refName, targetID), as the commit it is stored as.
NewReferenceEntry(refName, targetID) ==
    CommitObject("rsl_ref", EmptyTree, refName, targetID)

\* fmt.Sprintf("%s.json", name) and strings.TrimSuffix(name, ".json").
JSONName(name) == <<name, ".json">>
TrimSuffix(fileName) == fileName[1]

\* The entries of a key tree come back sorted by name.
SortedKeys(keys) ==
    (IF "K1" \in keys THEN <<"K1">> ELSE <<>>)
    \o (IF "K2" \in keys THEN <<"K2">> ELSE <<>>)

\* Lines 857-929: the tree State.Commit writes for a state.
metadataTreeEntryName == "metadata"
rootPublicKeysTreeEntryName == "keys"

MetadataTree(s) ==
    LET names == {RootRoleName}
                 \cup (IF s.TargetsEnvelope = None THEN {} ELSE {TargetsRoleName})
                 \cup DOMAIN s.DelegationEnvelopes
    IN  [f \in {JSONName(n) : n \in names} |->
            IF TrimSuffix(f) \in DOMAIN s.DelegationEnvelopes
            THEN s.DelegationEnvelopes[TrimSuffix(f)]
            ELSE IF TrimSuffix(f) = TargetsRoleName
            THEN s.TargetsEnvelope[1]
            ELSE s.RootEnvelope]

KeysTree(s) == [k \in Range(s.RootPublicKeys) |-> k]

PolicyTree(s) ==
    (metadataTreeEntryName :> MetadataTree(s))
    @@ (rootPublicKeysTreeEntryName :> KeysTree(s))

IsCommitHash(h) == h \in DOMAIN commits

----------------------------------------------------------------------------
(* gitinterface.KnowsCommit and the RSL queries.                           *)

\* commit.IsAncestor(commitUnderTest): a is reached from b over parents.
RECURSIVE IsAncestor(_, _)
IsAncestor(a, b) ==
    IF ~IsCommitHash(b) THEN FALSE
    ELSE commits[b].parent = a \/ IsAncestor(a, commits[b].parent)

KnowsCommit_SameOnly(commitID, commit) == commitID = commit
KnowsCommit(commitID, commit) ==
    IF commitID = commit THEN TRUE
    ELSE IF ~IsCommitHash(commitID) THEN FALSE
    ELSE IsAncestor(commit, commitID)

RSLHead == IF RSLRef \in DOMAIN refs THEN refs[RSLRef] ELSE ZeroHash

IsReferenceEntry(id) == IsCommitHash(id) /\ commits[id].kind = "rsl_ref"

\* rsl.GetFirstReferenceEntryForCommit: walking back from id, the last
\* reference entry met whose target knows the commit, that is the oldest
\* one (ZeroHash: no record).
RECURSIVE FirstReferenceEntryFrom(_, _, _)
FirstReferenceEntryFrom(id, commit, found) ==
    IF ~IsCommitHash(id) THEN found
    ELSE FirstReferenceEntryFrom(commits[id].parent, commit,
             IF IsReferenceEntry(id) /\ KnowsCommit(commits[id].targetID, commit)
             THEN id ELSE found)

GetFirstReferenceEntryForCommit(commit) ==
    FirstReferenceEntryFrom(RSLHead, commit, ZeroHash)

\* rsl.GetLatestReferenceEntryForRef, walking back from id (ZeroHash: none).
RECURSIVE LatestReferenceEntryFrom(_, _)
LatestReferenceEntryFrom(id, refName) ==
    IF ~IsCommitHash(id) THEN ZeroHash
    ELSE IF IsReferenceEntry(id) /\ commits[id].refName = refName THEN id
    ELSE LatestReferenceEntryFrom(commits[id].parent, refName)

GetLatestReferenceEntryForRef(refName) == LatestReferenceEntryFrom(RSLHead, refName)

GetLatestReferenceEntryForRefBefore(refName, id) ==
    LatestReferenceEntryFrom(commits[id].parent, refName)

----------------------------------------------------------------------------
(* LoadStateForEntry and GetStateForCommit.                                *)

Loaded(state, err) == [state |-> state, err |-> err]

\* Lines 545-549: the state that was read is verified before it is returned.
\* (states holds the one state read.)
Verified_Unchecked(states) == CHOOSE r \in {Loaded(Some(s), "ok") : s \in states} : TRUE
Verified(states) ==
    CHOOSE r \in {IF Verify(s) # "ok" THEN Loaded(None, Verify(s))
                  ELSE Loaded(Some(s), "ok") : s \in states} : TRUE

\* Lines 470-488: at most two entries, each named metadata or keys.
ValidPolicyRootTree_CountOnly(tree) == Cardinality(DOMAIN tree) <= 2
ValidPolicyRootTree(tree) ==
    IF Cardinality(DOMAIN tree) > 2 THEN FALSE
    ELSE \A n \in DOMAIN tree :
             n \in {metadataTreeEntryName, rootPublicKeysTreeEntryName}

LoadStateForEntry(id) ==
    IF ~IsReferenceEntry(id) THEN Loaded(None, "not_rsl_entry")
    ELSE IF commits[id].refName # PolicyRef
    THEN Loaded(None, "rsl_entry_does_not_match_ref")
    ELSE IF ~IsCommitHash(commits[id].targetID) THEN Loaded(None, "object_not_found")
    ELSE
      LET tree == commits[commits[id].targetID].tree IN
      IF ~ValidPolicyRootTree(tree) THEN Loaded(None, "invalid_policy_tree")
      ELSE IF metadataTreeEntryName \notin DOMAIN tree
              \/ rootPublicKeysTreeEntryName \notin DOMAIN tree
      THEN Loaded(None, "object_not_found")
      ELSE
        LET metadataTree == tree[metadataTreeEntryName]
            keysTree == tree[rootPublicKeysTreeEntryName]
            others == {f \in DOMAIN metadataTree :
                          f \notin {JSONName(RootRoleName), JSONName(TargetsRoleName)}}
        IN
        IF JSONName(RootRoleName) \notin DOMAIN metadataTree
        THEN Loaded(None, "panic")
        ELSE
          Verified({State(metadataTree[JSONName(RootRoleName)],
                          IF JSONName(TargetsRoleName) \in DOMAIN metadataTree
                          THEN Some(metadataTree[JSONName(TargetsRoleName)]) ELSE None,
                          [n \in {TrimSuffix(f) : f \in others} |->
                              metadataTree[JSONName(n)]],
                          SortedKeys(DOMAIN keysTree))})

GetStateForCommit_LatestPolicy(commit) ==
    LET firstSeenEntry == GetFirstReferenceEntryForCommit(commit)
        commitPolicyEntry == GetLatestReferenceEntryForRef(PolicyRef)
    IN  IF firstSeenEntry = ZeroHash THEN Loaded(None, "ok")
        ELSE IF commitPolicyEntry = ZeroHash THEN Loaded(None, "rsl_entry_not_found")
        ELSE LoadStateForEntry(commitPolicyEntry)

GetStateForCommit_SurfaceNoRecord(commit) ==
    LET firstSeenEntry == GetFirstReferenceEntryForCommit(commit)
        commitPolicyEntry == GetLatestReferenceEntryForRefBefore(PolicyRef, firstSeenEntry)
    IN  IF firstSeenEntry = ZeroHash THEN Loaded(None, "no_record_of_commit")
        ELSE IF commitPolicyEntry = ZeroHash THEN Loaded(None, "rsl_entry_not_found")
        ELSE LoadStateForEntry(commitPolicyEntry)

GetStateForCommit(commit) ==
    LET firstSeenEntry == GetFirstReferenceEntryForCommit(commit)
        commitPolicyEntry == GetLatestReferenceEntryForRefBefore(PolicyRef, firstSeenEntry)
    IN  IF firstSeenEntry = ZeroHash THEN Loaded(None, "ok")
        ELSE IF commitPolicyEntry = ZeroHash THEN Loaded(None, "rsl_entry_not_found")
        ELSE LoadStateForEntry(commitPolicyEntry)

----------------------------------------------------------------------------
(* Callers: each runs one operation at a time, step by step.               *)

NoObject == CommitObject("commit", EmptyTree, "", ZeroHash)

NoLocals ==
    [op |-> "none", state |-> None, sign |-> FALSE, ref |-> "", cur |-> ZeroHash,
     original |-> ZeroHash, obj |-> NoObject, commitID |-> ZeroHash]

Returned(op, err, arg, state, commitID) ==
    [op |-> op, err |-> err, arg |-> arg, state |-> state, commitID |-> commitID]

NoReturn == Returned("none", "ok", ZeroHash, None, ZeroHash)

\* storer.SetReference: creates or overwrites, whatever the ref holds.
SetReference(rs, refName, hash) ==
    [r \in DOMAIN rs \cup {refName} |-> IF r = refName THEN hash ELSE rs[r]]

\* storer.CheckAndSetReference succeeds only if the ref still holds old.
CheckPasses(rs, refName, old) == refName \in DOMAIN rs /\ rs[refName] = old

\* gitinterface.ResetDueToError: puts the ref back to commitID.
ResetDueToError(rs, refName, commitID) == SetReference(rs, refName, commitID)

PolicyCommits == {h \in DOMAIN commits :
                     commits[h].kind = "commit" /\ commits[h].tree # EmptyTree}
BranchCommits == {h \in DOMAIN commits :
                     commits[h].kind = "commit" /\ commits[h].tree = EmptyTree}
Entries == {h \in DOMAIN commits : commits[h].kind # "commit"}

\* gitinterface.WriteCommit: the hash the object store gives a new commit.
WriteCommit(obj) ==
    LET class == IF obj.kind # "commit" THEN "entry"
                 ELSE IF obj.tree = EmptyTree THEN "branch" ELSE "policy"
    IN  <<class, Cardinality({h \in DOMAIN commits : h[1] = class}) + 1>>

Return(c, r) ==
    /\ pc' = [pc EXCEPT ![c] = "idle"]
    /\ loc' = [loc EXCEPT ![c] = NoLocals]
    /\ ret' = [ret EXCEPT ![c] = r]

InitializeNamespaceCheck_NoCheck(c) ==
    /\ pc[c] = "idle"
    /\ pc' = [pc EXCEPT ![c] = "ns_set"]
    /\ ret' = [ret EXCEPT ![c] = NoReturn]
    /\ UNCHANGED <<loc, refs, commits, trees, signFailures, policyVars>>

InitializeNamespaceCheck_AnyExisting(c) ==
    /\ pc[c] = "idle"
    /\ IF PolicyRef \in DOMAIN refs
       THEN Return(c, Returned("InitializeNamespace", "policy_exists",
                               ZeroHash, None, ZeroHash))
       ELSE /\ pc' = [pc EXCEPT ![c] = "ns_set"]
            /\ ret' = [ret EXCEPT ![c] = NoReturn]
            /\ UNCHANGED loc
    /\ UNCHANGED <<refs, commits, trees, signFailures, policyVars>>

\* InitializeNamespace, lines 398-406: the check.
InitializeNamespaceCheck(c) ==
    /\ pc[c] = "idle"
    /\ IF PolicyRef \in DOMAIN refs /\ refs[PolicyRef] # ZeroHash
       THEN Return(c, Returned("InitializeNamespace", "policy_exists",
                               ZeroHash, None, ZeroHash))
       ELSE /\ pc' = [pc EXCEPT ![c] = "ns_set"]
            /\ ret' = [ret EXCEPT ![c] = NoReturn]
            /\ UNCHANGED loc
    /\ UNCHANGED <<refs, commits, trees, signFailures, policyVars>>

\* InitializeNamespace, line 414: the write.
InitializeNamespaceSet(c) ==
    /\ pc[c] = "ns_set"
    /\ refs' = SetReference(refs, PolicyRef, ZeroHash)
    /\ Return(c, Returned("InitializeNamespace", "ok", ZeroHash, None, ZeroHash))
    /\ UNCHANGED <<commits, trees, signFailures, policyVars>>

\* A state whose root envelope nobody signed.
UnsignedState ==
    State(Envelope(GoodRootEnvelope.Payload, {}), None, EnvMap(None, None), <<"K1">>)

\* The states a caller hands to State.Commit.
CandidateStates == {RootOnlyState, ScenarioState, UnsignedState}

\* State.Commit, line 944: the target the RSL entry is given.
RecordedTarget_Prior(commitID, originalCommitID) == originalCommitID
RecordedTarget_Unwritten(commitID, originalCommitID) == <<"policy", commitID[2] + 1>>
RecordedTarget(commitID, originalCommitID) == commitID

StateCommitBegin_WriteFirst(c, s) ==
    /\ pc[c] = "idle"
    /\ Cardinality(PolicyCommits) < MaxPolicyCommits
    /\ Cardinality(Entries) < MaxEntries
    /\ trees' = trees \cup {PolicyTree(s)}
    /\ IF Verify(s) # "ok"
       THEN Return(c, Returned("StateCommit", Verify(s), ZeroHash, Some(s), ZeroHash))
       ELSE IF PolicyRef \notin DOMAIN refs
            THEN Return(c, Returned("StateCommit", "reference_not_found",
                                    ZeroHash, Some(s), ZeroHash))
            ELSE /\ pc' = [pc EXCEPT ![c] = "commit_read"]
                 /\ loc' = [loc EXCEPT ![c] =
                              [NoLocals EXCEPT !.op = "policy", !.state = Some(s),
                                 !.sign = TRUE,
                                 !.ref = PolicyRef, !.original = refs[PolicyRef],
                                 !.obj = CommitObject("commit", PolicyTree(s), "", ZeroHash)]]
                 /\ ret' = [ret EXCEPT ![c] = NoReturn]
    /\ UNCHANGED <<refs, commits, signFailures, policyVars>>

\* State.Commit, lines 849-935: verify, write the trees, read the policy ref.
StateCommitBegin(c, s) ==
    /\ pc[c] = "idle"
    /\ Cardinality(PolicyCommits) < MaxPolicyCommits
    /\ Cardinality(Entries) < MaxEntries
    /\ IF Verify(s) # "ok"
       THEN /\ Return(c, Returned("StateCommit", Verify(s), ZeroHash, Some(s), ZeroHash))
            /\ UNCHANGED trees
       ELSE /\ trees' = trees \cup {PolicyTree(s)}
            /\ IF PolicyRef \notin DOMAIN refs
               THEN Return(c, Returned("StateCommit", "reference_not_found",
                                       ZeroHash, Some(s), ZeroHash))
               ELSE /\ pc' = [pc EXCEPT ![c] = "commit_read"]
                    /\ loc' = [loc EXCEPT ![c] =
                                 [NoLocals EXCEPT !.op = "policy", !.state = Some(s),
                                    !.sign = TRUE,
                                    !.ref = PolicyRef, !.original = refs[PolicyRef],
                                    !.obj = CommitObject("commit", PolicyTree(s), "", ZeroHash)]]
                    /\ ret' = [ret EXCEPT ![c] = NoReturn]
    /\ UNCHANGED <<refs, commits, signFailures, policyVars>>

\* A caller commits to one of its branches with gitinterface.Commit.
BranchCommitBegin(c, ref) ==
    /\ pc[c] = "idle"
    /\ Cardinality(BranchCommits) < MaxBranchCommits
    /\ pc' = [pc EXCEPT ![c] = "commit_read"]
    /\ loc' = [loc EXCEPT ![c] = [NoLocals EXCEPT !.op = "branch", !.ref = ref,
                                    !.obj = CommitObject("commit", EmptyTree, "", ZeroHash)]]
    /\ ret' = [ret EXCEPT ![c] = NoReturn]
    /\ UNCHANGED <<refs, commits, trees, signFailures, policyVars>>

\* rsl.NewReferenceEntry(ref, tip of ref).Commit.
RSLAppendBegin(c, ref) ==
    /\ pc[c] = "idle"
    /\ Cardinality(Entries) < MaxEntries
    /\ ref \in DOMAIN refs /\ refs[ref] # ZeroHash
    /\ pc' = [pc EXCEPT ![c] = "commit_read"]
    /\ loc' = [loc EXCEPT ![c] = [NoLocals EXCEPT !.op = "rsl", !.ref = RSLRef,
                                    !.obj = NewReferenceEntry(ref, refs[ref])]]
    /\ ret' = [ret EXCEPT ![c] = NoReturn]
    /\ UNCHANGED <<refs, commits, trees, signFailures, policyVars>>

Fail_NoReset(c, rs, err) ==
    /\ refs' = rs
    /\ Return(c, Returned(IF loc[c].op \in {"policy", "policy_rsl"}
                          THEN "StateCommit" ELSE loc[c].op,
                          err, ZeroHash, loc[c].state, ZeroHash))

\* What an operation returns when its current commit fails with err: the
\* RSL append of State.Commit resets the policy ref first (line 945).
Fail(c, rs, err) ==
    /\ refs' = IF loc[c].op = "policy_rsl"
               THEN ResetDueToError(rs, PolicyRef, loc[c].original)
               ELSE rs
    /\ Return(c, Returned(IF loc[c].op \in {"policy", "policy_rsl"}
                          THEN "StateCommit" ELSE loc[c].op,
                          err, ZeroHash, loc[c].state, ZeroHash))

\* gitinterface.Commit, lines 46-54: build the commit on the value read,
\* sign it if asked to; signing can fail.
GitCommitBuild(c, curRef) ==
    /\ \E signFails \in (IF loc[c].sign /\ signFailures < MaxSignFailures
                          THEN BOOLEAN ELSE {FALSE}) :
         IF signFails
         THEN /\ Fail(c, refs, "signing_failed")
              /\ signFailures' = signFailures + 1
         ELSE /\ UNCHANGED <<refs, signFailures, ret>>
              /\ pc' = [pc EXCEPT ![c] = "commit_apply"]
              /\ loc' = [loc EXCEPT ![c].cur = curRef,
                                    ![c].obj = CreateCommitObject(loc[c].obj, curRef)]
    /\ UNCHANGED <<commits, trees, policyVars>>

\* gitinterface.Commit, lines 28-32: read the ref; when it is missing the
\* call goes on to create it.
GitCommitRead(c) ==
    /\ pc[c] = "commit_read"
    /\ IF loc[c].ref \in DOMAIN refs
       THEN GitCommitBuild(c, refs[loc[c].ref])
       ELSE /\ pc' = [pc EXCEPT ![c] = "commit_set_empty"]
            /\ UNCHANGED <<refs, commits, trees, loc, ret, signFailures, policyVars>>

\* gitinterface.Commit, lines 33-36: storer.SetReference writes the zero
\* hash to the ref that was found missing, whatever the ref holds by now.
GitCommitSetEmpty(c) ==
    /\ pc[c] = "commit_set_empty"
    /\ refs' = SetReference(refs, loc[c].ref, ZeroHash)
    /\ pc' = [pc EXCEPT ![c] = "commit_reread"]
    /\ UNCHANGED <<commits, trees, loc, ret, signFailures, policyVars>>

\* gitinterface.Commit, lines 37-40: the ref is read again.
GitCommitReread(c) ==
    /\ pc[c] = "commit_reread"
    /\ GitCommitBuild(c, refs[loc[c].ref])

\* gitinterface.ApplyCommit, lines 61-69: write the object, compare-and-set
\* the ref; then what State.Commit does with the outcome (lines 937-948).
GitApplyCommit(c) ==
    /\ pc[c] = "commit_apply"
    /\ LET commitHash == WriteCommit(loc[c].obj) IN
       /\ commits' = (commitHash :> loc[c].obj) @@ commits
       /\ IF ~CheckPasses(refs, loc[c].ref, loc[c].cur)
          THEN Fail(c, refs, "concurrent_update")
          ELSE /\ refs' = SetReference(refs, loc[c].ref, commitHash)
               /\ IF loc[c].op = "policy"
                  THEN /\ pc' = [pc EXCEPT ![c] = "commit_read"]
                       /\ loc' = [loc EXCEPT ![c].op = "policy_rsl",
                                     ![c].commitID = commitHash,
                                     ![c].ref = RSLRef,
                                     ![c].obj = NewReferenceEntry(PolicyRef,
                                         RecordedTarget(commitHash, loc[c].original))]
                       /\ UNCHANGED ret
                  ELSE Return(c, Returned(IF loc[c].op = "policy_rsl"
                                          THEN "StateCommit" ELSE loc[c].op,
                                          "ok", ZeroHash, loc[c].state,
                                          IF loc[c].op = "policy_rsl"
                                          THEN loc[c].commitID ELSE commitHash))
    /\ UNCHANGED <<trees, signFailures, policyVars>>

\* A caller points a branch at an existing commit: it creates the branch or
\* fast-forwards it (storer.SetReference / CheckAndSetReference).
SetBranch(c, ref, h) ==
    /\ pc[c] = "idle"
    /\ h \in BranchCommits
    /\ IF ref \in DOMAIN refs /\ refs[ref] # ZeroHash
       THEN IsAncestor(refs[ref], h)
       ELSE TRUE
    /\ refs' = SetReference(refs, ref, h)
    /\ ret' = [ret EXCEPT ![c] = NoReturn]
    /\ UNCHANGED <<pc, loc, commits, trees, signFailures, policyVars>>

\* A caller asks for the policy state that applies to a commit.
GetStateForCommitCall(c, commit) ==
    /\ pc[c] = "idle"
    /\ commit \in BranchCommits \cup PolicyCommits
    /\ ret' = [ret EXCEPT ![c] =
                 Returned("GetStateForCommit", GetStateForCommit(commit).err, commit,
                          GetStateForCommit(commit).state, ZeroHash)]
    /\ UNCHANGED <<pc, loc, refs, commits, trees, signFailures, policyVars>>

PolicyQuiet ==
    /\ pState = RootOnlyState
    /\ verifyResult = "none"
    /\ fpPc = "idle" /\ fpPath = "p1" /\ fpQueue = <<>> /\ fpAllKeys = {}
    /\ fpTrusted = <<>> /\ fpErr = "ok" /\ fpSteps = 0
    /\ fpCut = 0 /\ fpCutUsed = FALSE
    /\ faResult = NoAnswer
    /\ rootMeta = None
    /\ rootRet = [op |-> "none", arg |-> "", err |-> "ok", value |-> None]
    /\ sync = [local |-> [refs |-> <<>>, tracker |-> <<>>, objs |-> {}],
               remote |-> [refs |-> <<>>, tracker |-> <<>>, objs |-> {}],
               parents |-> <<>>,
               ret |-> [op |-> "none", ref |-> "", refs |-> {}, err |-> "ok",
                        nothing |-> FALSE]]
    /\ clone = [pc |-> "idle", dir |-> "absent", branch |-> "", did |-> <<>>,
                verified |-> "none", err |-> "none"]

PolicyIdle == PolicyQuiet /\ DiffIdle /\ SigIdle /\ VerifyIdle

Init ==
    /\ PolicyIdle
    /\ refs = <<>>
    /\ commits = <<>>
    /\ trees = {}
    /\ pc = [c \in Callers |-> "idle"]
    /\ loc = [c \in Callers |-> NoLocals]
    /\ ret = [c \in Callers |-> NoReturn]
    /\ signFailures = 0

Step(c) ==
    \/ InitializeNamespaceCheck(c)
    \/ InitializeNamespaceSet(c)
    \/ \E s \in CandidateStates : StateCommitBegin(c, s)
    \/ \E ref \in BranchRefs : BranchCommitBegin(c, ref)
    \/ \E ref \in BranchRefs : RSLAppendBegin(c, ref)
    \/ GitCommitRead(c)
    \/ GitCommitSetEmpty(c)
    \/ GitCommitReread(c)
    \/ GitApplyCommit(c)
    \/ \E ref \in BranchRefs, h \in DOMAIN commits : SetBranch(c, ref, h)
    \/ \E commit \in DOMAIN commits : GetStateForCommitCall(c, commit)

Next == \E c \in SeqCallers : Step(c)

Spec == Init /\ [][Next]_vars

----------------------------------------------------------------------------
(* Notions the properties of Spec are stated with.                         *)

\* The RSL, oldest entry first.
RECURSIVE ChainFrom(_)
ChainFrom(id) ==
    IF ~IsCommitHash(id) THEN <<>>
    ELSE Append(ChainFrom(commits[id].parent), id)

RSLChain == ChainFrom(RSLHead)

\* The commits reachable from h over parents, h included.
RECURSIVE ReachableCommits(_)
ReachableCommits(h) ==
    IF ~IsCommitHash(h) THEN {}
    ELSE {h} \cup ReachableCommits(commits[h].parent)

\* Positions in the RSL of the reference entries that record the commit.
RecordedAt(commit) ==
    {i \in 1..Len(RSLChain) :
        /\ commits[RSLChain[i]].kind = "rsl_ref"
        /\ commit \in ReachableCommits(commits[RSLChain[i]].targetID)}

\* Positions of the policy-ref reference entries strictly before position i.
PolicyEntriesBefore(i) ==
    {j \in 1..(i - 1) :
        /\ commits[RSLChain[j]].kind = "rsl_ref"
        /\ commits[RSLChain[j]].refName = PolicyRef}

Min(S) == CHOOSE x \in S : \A y \in S : x <= y
Max(S) == CHOOSE x \in S : \A y \in S : x >= y

Asked(c) == pc[c] = "idle" /\ ret[c].op = "GetStateForCommit"

\* C7: for a commit recorded in the RSL, GetStateForCommit returns the
\* policy state loaded from the latest policy-ref RSL entry that comes
\* strictly before the oldest RSL reference entry from whose target the
\* commit is reachable (and no state when no policy-ref entry comes before).
C7_PolicyBeforeFirstSeen ==
    \A c \in Callers :
        (Asked(c) /\ RecordedAt(ret[c].arg) # {})
        => LET first == Min(RecordedAt(ret[c].arg))
           IN  IF PolicyEntriesBefore(first) = {}
               THEN ret[c].state = None
               ELSE LET policyEntry == RSLChain[Max(PolicyEntriesBefore(first))]
                    IN  /\ ret[c].state = LoadStateForEntry(policyEntry).state
                        /\ ret[c].err = LoadStateForEntry(policyEntry).err

\* The commit asked about is a strict ancestor of the first target that
\* records it, and a later policy entry exists: the older policy is returned.
C7_Witness ==
    \E c \in Callers :
        /\ Asked(c)
        /\ ret[c].state = Some(RootOnlyState)
        /\ RecordedAt(ret[c].arg) # {}
        /\ commits[RSLChain[Min(RecordedAt(ret[c].arg))]].targetID # ret[c].arg
        /\ \E j \in 1..Len(RSLChain) :
              /\ j > Min(RecordedAt(ret[c].arg))
              /\ commits[RSLChain[j]].refName = PolicyRef

\* C8: once GetStateForCommit returns a policy state for a commit, it
\* returns the same state for that commit after every later step: later
\* policy commits and RSL appends do not change the answer. (Only a step
\* that changes the RSL head or the object store can change the answer.)
C8_FirstSeenStable ==
    [][<<RSLHead, commits>>' # <<RSLHead, commits>>
       => \A commit \in BranchCommits \cup PolicyCommits :
             LET returned == GetStateForCommit(commit)
             IN  returned.state # None => GetStateForCommit(commit)' = returned]_vars

\* P1 is returned for a commit although the RSL has, after the entry that
\* first recorded it, a newer policy and then an entry for another ref that
\* records the commit again.
C8_Witness ==
    \E c \in Callers :
        /\ Asked(c)
        /\ ret[c].state = Some(RootOnlyState)
        /\ \E i, j, k \in 1..Len(RSLChain) :
              /\ i = Min(RecordedAt(ret[c].arg))
              /\ i < j /\ j < k
              /\ commits[RSLChain[j]].refName = PolicyRef
              /\ LoadStateForEntry(RSLChain[j]).state = Some(ScenarioState)
              /\ k \in RecordedAt(ret[c].arg)
              /\ commits[RSLChain[k]].refName # commits[RSLChain[i]].refName

\* C9: GetStateForCommit for a commit no RSL entry records returns no state
\* and no error, and the call changes no reference.
C9_UnrecordedNoStateNoError ==
    [][\A c \in Callers :
          (ret'[c] # ret[c] /\ ret'[c].op = "GetStateForCommit")
          => /\ refs' = refs
             /\ RecordedAt(ret'[c].arg) = {}
                => (ret'[c].state = None /\ ret'[c].err = "ok")]_vars

\* An unrecorded commit was asked about while the RSL holds a policy entry.
C9_Witness ==
    \E c \in Callers :
        /\ Asked(c)
        /\ RecordedAt(ret[c].arg) = {}
        /\ ret[c].state = None /\ ret[c].err = "ok"
        /\ GetLatestReferenceEntryForRef(PolicyRef) # ZeroHash

\* C10: after State.Commit returns no error, the policy ref points to the
\* policy commit the call created, which holds the state's tree, and the
\* RSL head is a reference entry for the policy ref whose target is that
\* commit.
C10_CommitPostcondition ==
    \A c \in Callers :
        (pc[c] = "idle" /\ ret[c].op = "StateCommit" /\ ret[c].err = "ok")
        => /\ PolicyRef \in DOMAIN refs
           /\ refs[PolicyRef] = ret[c].commitID
           /\ IsCommitHash(refs[PolicyRef])
           /\ commits[refs[PolicyRef]].tree = PolicyTree(ret[c].state[1])
           /\ IsReferenceEntry(RSLHead)
           /\ commits[RSLHead].refName = PolicyRef
           /\ commits[RSLHead].targetID = refs[PolicyRef]

\* A second policy commit succeeded on top of an earlier one.
C10_Witness ==
    \E c \in Callers :
        /\ pc[c] = "idle" /\ ret[c].op = "StateCommit" /\ ret[c].err = "ok"
        /\ ret[c].state = Some(ScenarioState)
        /\ commits[refs[PolicyRef]].parent # ZeroHash

----------------------------------------------------------------------------
(* Concurrent writers: both callers run State.Commit and RSL appends, their *)
(* steps interleaved at every read and every write of a reference.          *)

\* rsl.NewAnnotation(ids, skip, message), for one annotated entry: the
\* commit object of an annotation entry.
NewAnnotation(rslEntryID) == CommitObject("rsl_annot", EmptyTree, "", rslEntryID)

\* rsl.NewAnnotation(...).Commit for an entry of the log.
AnnotationAppendBegin(c, rslEntryID) ==
    /\ pc[c] = "idle"
    /\ Cardinality(Entries) < MaxEntries
    /\ rslEntryID \in Range(RSLChain)
    /\ pc' = [pc EXCEPT ![c] = "commit_read"]
    /\ loc' = [loc EXCEPT ![c] = [NoLocals EXCEPT !.op = "rsl", !.ref = RSLRef,
                                    !.obj = NewAnnotation(rslEntryID)]]
    /\ ret' = [ret EXCEPT ![c] = NoReturn]
    /\ UNCHANGED <<refs, commits, trees, signFailures, policyVars>>

\* The namespace is initialized once, before any writer starts, so that
\* every later change of the policy ref is made by a State.Commit.
StepConc(c) ==
    \/ /\ PolicyRef \notin DOMAIN refs
       /\ \A d \in Callers : pc[d] = "idle"
       /\ InitializeNamespaceCheck(c)
    \/ InitializeNamespaceSet(c)
    \/ \E s \in CandidateStates : StateCommitBegin(c, s)
    \/ \E rslEntryID \in DOMAIN commits : AnnotationAppendBegin(c, rslEntryID)
    \/ GitCommitRead(c)
    \/ GitCommitSetEmpty(c)
    \/ GitCommitReread(c)
    \/ GitApplyCommit(c)

NextConc == \E c \in Callers : StepConc(c)

SpecConc == Init /\ [][NextConc]_vars

\* No caller is inside State.Commit.
NoStateCommitInProgress == \A c \in Callers : loc[c].op \notin {"policy", "policy_rsl"}

\* C11: with concurrent writers, in every state where no State.Commit is in
\* progress and at least one has succeeded (the RSL holds a reference entry
\* for the policy ref), the policy ref points to the target of the latest
\* RSL reference entry for the policy ref.
C11_PolicyRefMatchesRSL ==
    (NoStateCommitInProgress /\ GetLatestReferenceEntryForRef(PolicyRef) # ZeroHash)
    => /\ PolicyRef \in DOMAIN refs
       /\ refs[PolicyRef] = commits[GetLatestReferenceEntryForRef(PolicyRef)].targetID

\* C12: when the RSL append inside State.Commit fails after the policy ref
\* was advanced to the new policy commit, State.Commit returns an error, the
\* policy ref holds again the hash it had before the call, and the RSL has
\* no entry for the new commit.
C12_FailedAppendResets ==
    [][\A c \in Callers :
          (loc[c].op = "policy_rsl" /\ pc'[c] = "idle" /\ ret'[c].err # "ok")
          => /\ ret'[c].op = "StateCommit"
             /\ refs'[PolicyRef] = loc[c].original
             /\ refs'[PolicyRef] # loc[c].commitID
             /\ \A e \in Range(RSLChain') : commits'[e].targetID # loc[c].commitID]_vars

\* One writer alone: its State.Commit wrote a policy commit, signing the RSL
\* entry failed, and the policy ref is back at its prior (zero) hash.
C12_Witness ==
    \E c \in Callers :
        /\ pc[c] = "idle" /\ ret[c].op = "StateCommit" /\ ret[c].err = "signing_failed"
        /\ \A d \in Callers \ {c} : pc[d] = "idle" /\ ret[d] = NoReturn
        /\ PolicyCommits # {} /\ Entries = {}
        /\ refs[PolicyRef] = ZeroHash

\* The reference entries for the policy ref that are in the RSL.
PolicyEntries ==
    {e \in Range(RSLChain) : commits[e].kind = "rsl_ref" /\ commits[e].refName = PolicyRef}

\* C13: the policy-ref update precedes the RSL append. Every reference
\* entry for the policy ref in the RSL, in every state including those
\* inside a State.Commit, has as target a policy commit of the object store;
\* the step that appends such an entry is taken by a State.Commit that is
\* past its policy-ref update for that very commit, and the step that takes
\* a State.Commit past its policy-ref update sets the policy ref to it.
C13_PolicyUpdatePrecedesAppend ==
    [][/\ \A e \in PolicyEntries' : commits'[e].targetID \in PolicyCommits'
       /\ \A e \in PolicyEntries' \ PolicyEntries :
             /\ commits'[e].targetID \in PolicyCommits
             /\ \E c \in Callers : /\ loc[c].op = "policy_rsl"
                                   /\ loc[c].commitID = commits'[e].targetID
       /\ \A c \in Callers :
             (loc'[c].op = "policy_rsl" /\ loc[c].op # "policy_rsl")
             => /\ refs'[PolicyRef] = loc'[c].commitID
                /\ loc'[c].commitID \in PolicyCommits'
                /\ loc'[c].commitID \notin {commits'[e].targetID : e \in PolicyEntries'}]_vars

\* Inside a State.Commit that has advanced the policy ref and not yet
\* appended its entry, while the RSL already records an earlier policy commit.
C13_Witness ==
    \E c \in Callers :
        /\ loc[c].op = "policy_rsl" /\ pc[c] = "commit_apply"
        /\ refs[PolicyRef] = loc[c].commitID
        /\ PolicyEntries # {}
        /\ \A e \in PolicyEntries : commits[e].targetID # loc[c].commitID

\* C14: when State.Verify fails, State.Commit returns Verify's error and
\* has written nothing: every reference (the policy ref and the RSL ref
\* among them) is unchanged and no blob, tree or commit was created.
C14_VerifyFailureWritesNothing ==
    [][\A c \in Callers :
          (/\ pc[c] = "idle" /\ pc'[c] = "idle"
           /\ ret'[c] # ret[c]
           /\ ret'[c].op = "StateCommit"
           /\ Verify(ret'[c].state[1]) # "ok")
          => /\ ret'[c].err = Verify(ret'[c].state[1])
             /\ refs' = refs
             /\ commits' = commits
             /\ trees' = trees]_vars

\* State.Commit of an unsigned state was refused after an earlier policy
\* commit had succeeded; the trees of the refused state are not stored.
C14_Witness ==
    \E c \in Callers :
        /\ pc[c] = "idle" /\ ret[c].op = "StateCommit"
        /\ ret[c].state = Some(UnsignedState)
        /\ ret[c].err = "below_threshold"
        /\ PolicyRef \in DOMAIN refs /\ refs[PolicyRef] \in PolicyCommits
        /\ commits[RSLHead].targetID = refs[PolicyRef]
        /\ PolicyTree(UnsignedState) \notin trees

\* C15: every commit appended to the RSL ref, by a reference entry, by an
\* annotation or by the entry State.Commit appends, has as its one parent
\* the RSL head at the time of the append, and no parent only when the RSL
\* ref was absent or zero; and the entries form one linear chain: an entry
\* that was appended to the log stays in the log.
C15_AppendOnHead ==
    [][/\ (RSLHead' # RSLHead /\ RSLHead' # ZeroHash)
          => /\ RSLHead' \in Entries'
             /\ commits'[RSLHead'].parent = RSLHead
             /\ (commits'[RSLHead'].parent = ZeroHash
                  <=> (RSLRef \notin DOMAIN refs \/ refs[RSLRef] = ZeroHash))
       /\ Range(RSLChain) \subseteq Range(RSLChain')]_vars

\* C16: the RSL ref only moves forward. In every step, of an append or of a
\* State.Commit, succeeding or failing, the RSL ref is not removed, the
\* head before the step is the head after it or an ancestor of it, and every
\* commit of the object store, the entries among them, stays as it was
\* written: the log before the step is a prefix of the log after it.
C16_LogMovesForward ==
    [][/\ RSLRef \in DOMAIN refs => RSLRef \in DOMAIN refs'
       /\ \A h \in DOMAIN commits : h \in DOMAIN commits' /\ commits'[h] = commits[h]
       /\ RSLHead # ZeroHash => RSLHead \in ReachableCommits(RSLHead)'
       /\ Len(RSLChain) <= Len(RSLChain')
       /\ SubSeq(RSLChain', 1, Len(RSLChain)) = RSLChain]_vars

----------------------------------------------------------------------------
(* Two writers that run gitinterface.Commit on the branch refs, their      *)
(* steps interleaved at every read and every write of a reference.         *)

StepCommit(c) ==
    \/ \E ref \in BranchRefs : BranchCommitBegin(c, ref)
    \/ GitCommitRead(c)
    \/ GitCommitSetEmpty(c)
    \/ GitCommitReread(c)
    \/ GitApplyCommit(c)

NextCommit == \E c \in Callers : StepCommit(c)

SpecCommit == Init /\ [][NextCommit]_vars

\* The caller whose gitinterface.Commit takes the step.
InCommit(c) ==
    /\ pc[c] \in {"commit_read", "commit_set_empty", "commit_reread", "commit_apply"}
    /\ pc'[c] # pc[c]

\* C17: two writers run gitinterface.Commit on the same ref after reading
\* the same current value. The compare-and-set of a call succeeds only if
\* the ref still holds the value the call read, and then the other call's
\* compare-and-set can no longer pass; a call whose compare-and-set fails
\* returns an error and leaves the ref as it is; and no step of a call
\* overwrites a successful update: the commit a ref pointed to before the
\* step is the commit it points to after it or an ancestor of that commit.
C17_NoLostUpdate ==
    [][\A c \in Callers :
          InCommit(c) =>
            /\ pc[c] = "commit_apply" =>
                  IF refs[loc[c].ref] = loc[c].cur
                  THEN /\ refs'[loc[c].ref] \in DOMAIN commits' \ DOMAIN commits
                       /\ commits'[refs'[loc[c].ref]].parent = loc[c].cur
                       /\ \A d \in Callers \ {c} :
                             (pc[d] = "commit_apply" /\ loc[d].ref = loc[c].ref
                                /\ loc[d].cur = loc[c].cur)
                             => ~CheckPasses(refs', loc[d].ref, loc[d].cur)
                  ELSE /\ ret'[c].err = "concurrent_update"
                       /\ refs'[loc[c].ref] = refs[loc[c].ref]
            /\ \A r \in DOMAIN refs :
                  (r = loc[c].ref /\ refs[r] # ZeroHash)
                  => refs[r] \in ReachableCommits(refs[r])']_vars

----------------------------------------------------------------------------
(* Properties of the resolvers and of State.Verify (SpecPolicy).           *)

\* C18: FindPublicKeysForPath and FindAuthorizedSigningKeyIDs verify the
\* state before any traversal: on a state that fails State.Verify each
\* returns the error of Verify and no keys, and the resolver loop has not
\* popped a single delegation.
C18_ResolversVerifyFirst ==
    Verify(pState) # "ok"
    => /\ fpPc = "answered" => faResult = Answer(None, Verify(pState))
       /\ fpPc = "done" => /\ fpErr = Verify(pState)
                           /\ fpTrusted = <<>>
                           /\ fpSteps = 0

\* FindAuthorizedSigningKeyIDs was asked for the root role, whose key ids
\* the root metadata lists, on a state with an unreachable delegation
\* envelope, and returned the error of Verify.
C18_Witness ==
    /\ fpPc = "answered"
    /\ faResult = Answer(None, "dangling")
    /\ AuthorizedSigningKeyIDs(pState, RootRoleName) = Answer(Some(<<"K1">>), "ok")
    /\ AuthorizedSigningKeyIDs(pState, "A").err = "ok"

\* C19: State.Verify is a pure function of the state. A call leaves the
\* root, targets and delegation envelopes, the delegation-envelope map and
\* the root public keys as they were, writes no reference and no object,
\* and the verdict it gives is the verdict a further call on the state it
\* leaves behind gives.
C19_VerifyIsPure ==
    [][(fpPc = "idle" /\ fpPc' = "idle")
       => /\ pState' = pState
          /\ repoVars' = repoVars
          /\ verifyResult' = Verify(pState)
          /\ Verify(pState)' = verifyResult'
          /\ verifyResult # "none" => verifyResult' = verifyResult]_vars

\* Verify succeeded on a state with two delegation envelopes: its loop has
\* deleted both from its working map, and the state still holds both.
C19_Witness ==
    /\ verifyResult = "ok"
    /\ ReachesLoop(pState)
    /\ DOMAIN pState.DelegationEnvelopes = {"A", "B"}
    /\ ConsumeDelegations(pState.TargetsEnvelope[1].Payload.Delegations[1].Roles,
                          pState.DelegationEnvelopes,
                          pState.TargetsEnvelope[1].Payload.Delegations[1].Keys) = <<>>

\* RootMetadata.Validate: non-empty role names, thresholds >= 1.
ValidateRoot(rootMetadata) ==
    IF \A name \in DOMAIN rootMetadata.Roles :
          name # "" /\ rootMetadata.Roles[name].Threshold >= 1
    THEN "ok" ELSE "err_validate"

\* Every metadata document of the state passes its structural validation.
AllDocumentsValid(s) ==
    /\ ValidateRoot(GetRootMetadata(s)) = "ok"
    /\ s.TargetsEnvelope # None => Validate(s.TargetsEnvelope[1].Payload) = "ok"
    /\ \A n \in DOMAIN s.DelegationEnvelopes :
          Validate(s.DelegationEnvelopes[n].Payload) = "ok"

\* C20: State.Verify succeeds only if the root metadata, the top-level
\* targets metadata and every delegated targets metadata of the state pass
\* structural validation, with or without delegation envelopes.
C20_VerifiedIsValid ==
    verifyResult = "ok" => AllDocumentsValid(pState)

----------------------------------------------------------------------------
(* SpecLoad: loading policy states from a repository. The repository is    *)
(* either fresh or already holds one policy commit, recorded in the RSL,   *)
(* whose root tree somebody else wrote.                                    *)

\* LoadState, lines 428-435: rsl.GetEntry, then LoadStateForEntry.
LoadState(rslEntryID) ==
    IF rslEntryID \notin Entries THEN Loaded(None, "malformed_object")
    ELSE LoadStateForEntry(rslEntryID)

\* LoadCurrentState, lines 439-446.
LoadCurrentState ==
    IF GetLatestReferenceEntryForRef(PolicyRef) = ZeroHash
    THEN Loaded(None, "rsl_entry_not_found")
    ELSE LoadStateForEntry(GetLatestReferenceEntryForRef(PolicyRef))

LoadStateForEntryCall(c, id) ==
    /\ pc[c] = "idle"
    /\ id \in Entries
    /\ ret' = [ret EXCEPT ![c] =
                 Returned("LoadStateForEntry", LoadStateForEntry(id).err, id,
                          LoadStateForEntry(id).state, ZeroHash)]
    /\ UNCHANGED <<pc, loc, refs, commits, trees, signFailures, policyVars>>

LoadStateCall(c, rslEntryID) ==
    /\ pc[c] = "idle"
    /\ rslEntryID \in Entries
    /\ ret' = [ret EXCEPT ![c] =
                 Returned("LoadState", LoadState(rslEntryID).err, rslEntryID,
                          LoadState(rslEntryID).state, ZeroHash)]
    /\ UNCHANGED <<pc, loc, refs, commits, trees, signFailures, policyVars>>

LoadCurrentStateCall(c) ==
    /\ pc[c] = "idle"
    /\ ret' = [ret EXCEPT ![c] =
                 Returned("LoadCurrentState", LoadCurrentState.err,
                          GetLatestReferenceEntryForRef(PolicyRef),
                          LoadCurrentState.state, ZeroHash)]
    /\ UNCHANGED <<pc, loc, refs, commits, trees, signFailures, policyVars>>

\* A delegation envelope stored under the name of the top-level targets
\* role: reached from the targets metadata, or alongside no targets
\* metadata at all.
NamedTargetsState ==
    State(GoodRootEnvelope,
          Some(Envelope(TargetsMetadata(Some(Delegations(Keys,
                   <<Delegation(TargetsRoleName, <<"K1">>, 1, FALSE), AllowRule>>))),
               {"K1"})),
          (TargetsRoleName :> Envelope(Leaf, {"K1"})), <<"K1">>)

OnlyNamedTargetsState ==
    State(GoodRootEnvelope, None, (TargetsRoleName :> Envelope(Leaf, {"K1"})), <<"K1">>)

\* Two root keys, listed in descending order of key id.
TwoRootKeysState ==
    State(Envelope(GoodRootEnvelope.Payload, Keys), None, EnvMap(None, None),
          <<"K2", "K1">>)

DelegatedState ==
    State(ScenarioState.RootEnvelope, ScenarioState.TargetsEnvelope,
          EnvMap(None, Some(Envelope(Leaf, {"K1"}))), <<"K1">>)

\* The states handed to State.Commit under SpecLoad.
LoadStates ==
    {RootOnlyState, ScenarioState, DelegatedState, TwoRootKeysState, UnsignedState,
     NamedTargetsState, OnlyNamedTargetsState}

\* The root trees a policy commit written by somebody else may have: any
\* choice among four entry names, the metadata and keys subtrees being
\* those of a state.
RootTreeEntryNames ==
    {metadataTreeEntryName, rootPublicKeysTreeEntryName, "policy-staging", "README"}

PolicyRootTrees ==
    {[n \in names |-> IF n = metadataTreeEntryName THEN MetadataTree(s)
                      ELSE IF n = rootPublicKeysTreeEntryName THEN KeysTree(s)
                      ELSE EmptyTree] :
        names \in SUBSET RootTreeEntryNames,
        s \in {RootOnlyState, ScenarioState, UnsignedState}}

InitLoad ==
    /\ PolicyIdle
    /\ trees = {}
    /\ pc = [c \in Callers |-> "idle"]
    /\ loc = [c \in Callers |-> NoLocals]
    /\ ret = [c \in Callers |-> NoReturn]
    /\ signFailures = 0
    /\ \E tree \in PolicyRootTrees, present \in BOOLEAN :
         IF present
         THEN /\ commits = (<<"policy", 1>> :> CommitObject("commit", tree, "", ZeroHash))
                           @@ (<<"entry", 1>> :> NewReferenceEntry(PolicyRef, <<"policy", 1>>))
              /\ refs = (PolicyRef :> <<"policy", 1>>) @@ (RSLRef :> <<"entry", 1>>)
         ELSE /\ commits = <<>>
              /\ refs = <<>>

StepLoad(c) ==
    \/ InitializeNamespaceCheck(c)
    \/ InitializeNamespaceSet(c)
    \/ \E s \in LoadStates : StateCommitBegin(c, s)
    \/ GitCommitRead(c)
    \/ GitCommitSetEmpty(c)
    \/ GitCommitReread(c)
    \/ GitApplyCommit(c)
    \/ \E id \in DOMAIN commits : LoadStateForEntryCall(c, id)
    \/ \E id \in DOMAIN commits : LoadStateCall(c, id)
    \/ LoadCurrentStateCall(c)

NextLoad == \E c \in SeqCallers : StepLoad(c)

SpecLoad == InitLoad /\ [][NextLoad]_vars

\* The root tree of the policy commit an RSL entry points to.
PolicyRootTreeOf(id) == commits[commits[id].targetID].tree

\* The entry is a reference entry for the policy ref whose target commit
\* is in the object store.
IsPolicyEntry(id) ==
    /\ IsReferenceEntry(id)
    /\ commits[id].refName = PolicyRef
    /\ IsCommitHash(commits[id].targetID)

LoadOps == {"LoadStateForEntry", "LoadState", "LoadCurrentState"}

\* C21: a load from an entry whose policy commit's root tree has more than
\* two entries, or an entry named neither metadata nor keys, returns
\* invalid_policy_tree and no state.
C21_ExtraEntryRejected ==
    \A c \in Callers :
        (/\ ret[c].op \in LoadOps
         /\ IsPolicyEntry(ret[c].arg)
         /\ \/ Cardinality(DOMAIN PolicyRootTreeOf(ret[c].arg)) > 2
            \/ \E n \in DOMAIN PolicyRootTreeOf(ret[c].arg) :
                  n \notin {"metadata", "keys"})
        => ret[c].err = "invalid_policy_tree" /\ ret[c].state = None

\* Reached: a load was refused for a tree of one entry with a foreign name.
C21_Witness ==
    \E c \in Callers :
        /\ ret[c].op = "LoadStateForEntry"
        /\ IsPolicyEntry(ret[c].arg)
        /\ Cardinality(DOMAIN PolicyRootTreeOf(ret[c].arg)) = 1
        /\ "README" \in DOMAIN PolicyRootTreeOf(ret[c].arg)
        /\ ret[c].err = "invalid_policy_tree"

\* C22: a load from an entry whose policy commit's root tree lacks the
\* metadata subtree or the keys subtree returns invalid_policy_tree.
C22_MissingSubtreeRejected ==
    \A c \in Callers :
        (/\ ret[c].op \in LoadOps
         /\ IsPolicyEntry(ret[c].arg)
         /\ \/ "metadata" \notin DOMAIN PolicyRootTreeOf(ret[c].arg)
            \/ "keys" \notin DOMAIN PolicyRootTreeOf(ret[c].arg))
        => ret[c].err = "invalid_policy_tree"

\* Two states hold the same documents and the same root public keys.
SameState(a, b) ==
    /\ a.RootEnvelope = b.RootEnvelope
    /\ a.TargetsEnvelope = b.TargetsEnvelope
    /\ a.DelegationEnvelopes = b.DelegationEnvelopes
    /\ Range(a.RootPublicKeys) = Range(b.RootPublicKeys)

LoadedSame(r, s) == r.err = "ok" /\ r.state # None /\ SameState(r.state[1], s)

\* C23: once State.Commit has accepted and recorded a state S,
\* LoadCurrentState, LoadState of the RSL head and LoadStateForEntry of the
\* latest policy-ref entry each return a state equal to S.
C23_RoundTrip ==
    \A c \in Callers :
        (pc[c] = "idle" /\ ret[c].op = "StateCommit" /\ ret[c].err = "ok")
        => /\ LoadedSame(LoadCurrentState, ret[c].state[1])
           /\ LoadedSame(LoadState(RSLHead), ret[c].state[1])
           /\ LoadedSame(LoadStateForEntry(GetLatestReferenceEntryForRef(PolicyRef)),
                         ret[c].state[1])

----------------------------------------------------------------------------
(* InitializeNamespace, one caller at a time.                              *)

\* The policy ref exists and holds a non-zero hash.
PolicyRefIsSet ==
    IF PolicyRef \in DOMAIN refs THEN refs[PolicyRef] # ZeroHash ELSE FALSE

\* C24: a call of InitializeNamespace made while the policy ref holds a
\* non-zero hash returns policy_exists and leaves every ref as it was.
C24_PolicyExists ==
    [][\A c \in Callers :
          (/\ PolicyRefIsSet
           /\ pc[c] = "idle"
           /\ IF pc'[c] = "ns_set" THEN TRUE
              ELSE ret'[c] # ret[c] /\ ret'[c].op = "InitializeNamespace")
          => /\ pc'[c] = "idle"
             /\ ret'[c].err = "policy_exists"
             /\ refs' = refs]_vars

\* Reached: the call was refused on a policy ref that holds a commit.
C24_Witness ==
    \E c \in Callers :
        /\ ret[c].op = "InitializeNamespace"
        /\ ret[c].err = "policy_exists"
        /\ PolicyRefIsSet
        /\ refs[PolicyRef] \in PolicyCommits

\* C25: a call of InitializeNamespace made while the policy ref is absent
\* or zero is not refused, returns no error and leaves the policy ref at
\* the zero hash (and every other ref as it was); so does every further
\* call made while the ref is still zero.
C25_ZeroIsUninitialized ==
    [][\A c \in Callers :
          /\ (~PolicyRefIsSet /\ pc[c] = "idle" /\ ret'[c] # ret[c])
             => ret'[c].op # "InitializeNamespace"
          /\ (~PolicyRefIsSet /\ pc[c] = "ns_set" /\ pc'[c] # "ns_set")
             => /\ pc'[c] = "idle"
                /\ ret'[c].op = "InitializeNamespace"
                /\ ret'[c].err = "ok"
                /\ refs' = SetReference(refs, PolicyRef, ZeroHash)
                /\ refs'[PolicyRef] = ZeroHash]_vars

\* Reached: a call found the policy ref present at the zero hash, left
\* there by an earlier call, and goes on to write it.
C25_Witness ==
    \E c \in Callers :
        /\ pc[c] = "ns_set"
        /\ PolicyRef \in DOMAIN refs
        /\ refs[PolicyRef] = ZeroHash

----------------------------------------------------------------------------
(* SpecRoot: the root metadata a caller builds in memory with              *)
(* InitializeRootMetadata, AddTargetsKey and DeleteTargetsKey.             *)

\* The keys handed to the three operations.
RootOpKeys == {"K1", "K2", "K3"}

RootRet(op, arg, err, value) == [op |-> op, arg |-> arg, err |-> err, value |-> value]

\* InitializeRootMetadata(key): version 1, the key, and the root role held
\* by that key with threshold 1.
InitializeRootMetadata(key) ==
    [Version |-> 1, Keys |-> {key}, Roles |-> (RootRoleName :> Role(<<key>>, 1))]

AddTargetsKey_KeyIDOnly(rootMetadata, targetsKey) ==
    [rootMetadata EXCEPT
        !.Roles = IF TargetsRoleName \notin DOMAIN @
                  THEN (TargetsRoleName :> Role(<<targetsKey>>, 1)) @@ @
                  ELSE [@ EXCEPT ![TargetsRoleName].KeyIDs =
                            IF targetsKey \in Range(@) THEN @ ELSE Append(@, targetsKey)]]

\* AddTargetsKey(rootMetadata, targetsKey): the key joins the keys map and
\* the key ids of the targets role, which is created with threshold 1
\* when missing.
AddTargetsKey(rootMetadata, targetsKey) ==
    [rootMetadata EXCEPT
        !.Keys = @ \cup {targetsKey},
        !.Roles = IF TargetsRoleName \notin DOMAIN @
                  THEN (TargetsRoleName :> Role(<<targetsKey>>, 1)) @@ @
                  ELSE [@ EXCEPT ![TargetsRoleName].KeyIDs =
                            IF targetsKey \in Range(@) THEN @ ELSE Append(@, targetsKey)]]

\* A key id list without one key id.
WithoutKeyID(keyIDs, keyID) == SelectSeq(keyIDs, LAMBDA k : k # keyID)

DeleteTargetsKey_Unchecked(rootMetadata, keyID) ==
    IF TargetsRoleName \notin DOMAIN rootMetadata.Roles
    THEN [value |-> Some(rootMetadata), err |-> "ok"]
    ELSE [value |-> Some([rootMetadata EXCEPT !.Roles[TargetsRoleName].KeyIDs =
                             WithoutKeyID(@, keyID)]),
          err |-> "ok"]

\* DeleteTargetsKey(rootMetadata, keyID): the key id leaves the targets
\* role (the key stays in the keys map) unless the role could then no
\* longer meet its threshold; then nothing is returned but the error.
DeleteTargetsKey(rootMetadata, keyID) ==
    IF TargetsRoleName \notin DOMAIN rootMetadata.Roles
    THEN [value |-> Some(rootMetadata), err |-> "ok"]
    ELSE IF Len(WithoutKeyID(rootMetadata.Roles[TargetsRoleName].KeyIDs, keyID))
              < rootMetadata.Roles[TargetsRoleName].Threshold
    THEN [value |-> None, err |-> "cannot_meet_threshold"]
    ELSE [value |-> Some([rootMetadata EXCEPT !.Roles[TargetsRoleName].KeyIDs =
                             WithoutKeyID(@, keyID)]),
          err |-> "ok"]

InitializeRootMetadataCall(key) ==
    /\ rootMeta' = Some(InitializeRootMetadata(key))
    /\ rootRet' = RootRet("InitializeRootMetadata", key, "ok",
                          Some(InitializeRootMetadata(key)))
    /\ UNCHANGED <<pState, verifyResult, fpPc, fpPath, fpQueue, fpAllKeys, fpTrusted,
                   fpErr, fpSteps, fpCut, fpCutUsed, faResult, sync, clone, diff, sig, vl, repoVars>>

AddTargetsKeyCall(targetsKey) ==
    /\ rootMeta # None
    /\ rootMeta' = Some(AddTargetsKey(rootMeta[1], targetsKey))
    /\ rootRet' = RootRet("AddTargetsKey", targetsKey, "ok",
                          Some(AddTargetsKey(rootMeta[1], targetsKey)))
    /\ UNCHANGED <<pState, verifyResult, fpPc, fpPath, fpQueue, fpAllKeys, fpTrusted,
                   fpErr, fpSteps, fpCut, fpCutUsed, faResult, sync, clone, diff, sig, vl, repoVars>>

\* On an error the object the caller passed is left as it was.
DeleteTargetsKeyCall(keyID) ==
    /\ rootMeta # None
    /\ rootMeta' = IF DeleteTargetsKey(rootMeta[1], keyID).err = "ok"
                   THEN DeleteTargetsKey(rootMeta[1], keyID).value
                   ELSE rootMeta
    /\ rootRet' = RootRet("DeleteTargetsKey", keyID,
                          DeleteTargetsKey(rootMeta[1], keyID).err,
                          DeleteTargetsKey(rootMeta[1], keyID).value)
    /\ UNCHANGED <<pState, verifyResult, fpPc, fpPath, fpQueue, fpAllKeys, fpTrusted,
                   fpErr, fpSteps, fpCut, fpCutUsed, faResult, sync, clone, diff, sig, vl, repoVars>>

InitRoot == PolicyIdle /\ RepoIdle

NextRoot ==
    \/ \E key \in RootOpKeys : InitializeRootMetadataCall(key)
    \/ \E targetsKey \in RootOpKeys : AddTargetsKeyCall(targetsKey)
    \/ \E keyID \in RootOpKeys : DeleteTargetsKeyCall(keyID)

SpecRoot == InitRoot /\ [][NextRoot]_vars

\* Without keyID the targets role would list fewer key ids than its
\* threshold.
WouldBreakThreshold(rootMetadata, keyID) ==
    IF TargetsRoleName \notin DOMAIN rootMetadata.Roles THEN FALSE
    ELSE Cardinality(Range(rootMetadata.Roles[TargetsRoleName].KeyIDs) \ {keyID})
             < rootMetadata.Roles[TargetsRoleName].Threshold

\* C26: a DeleteTargetsKey call that would leave the targets role with
\* fewer key ids than its threshold returns cannot_meet_threshold and
\* leaves the root metadata as it was.
C26_DeleteKeepsThreshold ==
    [][(/\ rootMeta # None
        /\ rootRet'.op = "DeleteTargetsKey"
        /\ WouldBreakThreshold(rootMeta[1], rootRet'.arg))
       => /\ rootRet'.err = "cannot_meet_threshold"
          /\ rootMeta' = rootMeta]_vars

\* Reached: of two targets keys one was deleted, and deleting the other
\* was refused.
C26_Witness ==
    /\ rootRet.op = "DeleteTargetsKey"
    /\ rootRet.err = "cannot_meet_threshold"
    /\ rootMeta # None
    /\ Cardinality(rootMeta[1].Keys) = 3
    /\ rootMeta[1].Roles[TargetsRoleName].KeyIDs = <<rootRet.arg>>

\* C27: in the root metadata built by any sequence of the three
\* operations every role lists at least threshold >= 1 key ids and every
\* key id a role lists is in the keys map; InitializeRootMetadata(K) gives
\* version 1 and roles[root] = {key_ids: [K], threshold: 1}.
C27_RootMetadataWellFormed ==
    /\ rootMeta # None =>
          \A r \in DOMAIN rootMeta[1].Roles :
              /\ rootMeta[1].Roles[r].Threshold >= 1
              /\ Cardinality(Range(rootMeta[1].Roles[r].KeyIDs))
                     >= rootMeta[1].Roles[r].Threshold
              /\ Range(rootMeta[1].Roles[r].KeyIDs) \subseteq rootMeta[1].Keys
    /\ rootRet.op = "InitializeRootMetadata" =>
          /\ rootMeta = rootRet.value
          /\ rootMeta[1].Version = 1
          /\ rootMeta[1].Roles[RootRoleName] = Role(<<rootRet.arg>>, 1)

\* Reached: a targets key was deleted and the targets role, still holding
\* one of the three keys of the document, meets its threshold.
C27_Witness ==
    /\ rootRet.op = "DeleteTargetsKey"
    /\ rootRet.err = "ok"
    /\ rootMeta # None
    /\ Cardinality(rootMeta[1].Keys) = 3
    /\ TargetsRoleName \in DOMAIN rootMeta[1].Roles
    /\ Len(rootMeta[1].Roles[TargetsRoleName].KeyIDs) = 1

----------------------------------------------------------------------------
(* SpecSync: a local and a remote repository, gitinterface.Push, Fetch and *)
(* CloneAndFetch between them, and Clone.                                  *)

MaxSyncCommits == 3

\* The branch the remote's HEAD names.
HeadBranch == "refs/heads/main"

SyncRefs == BranchRefs \cup {RSLRef, PolicyRef}

\* A repository: its refs, its remote-tracking refs (by the name of the
\* ref they track) and the commits in its object store. A commit is its
\* number; sync.parents gives each commit's parent (0: none).
SyncRepo(rs, tracker, objs) == [refs |-> rs, tracker |-> tracker, objs |-> objs]

EmptyRepo == SyncRepo(<<>>, <<>>, {})

SyncRet(op, ref, rs, err, nothing) ==
    [op |-> op, ref |-> ref, refs |-> rs, err |-> err, nothing |-> nothing]

NoSyncRet == SyncRet("none", "", {}, "ok", FALSE)

\* What a ref resolves to (0: the ref does not exist).
RefOf(repo, ref) == IF ref \in DOMAIN repo.refs THEN repo.refs[ref] ELSE 0

\* The commits reached from a commit over parents.
RECURSIVE Reach(_, _)
Reach(parents, id) == IF id = 0 THEN {} ELSE {id} \cup Reach(parents, parents[id])

Synced(dst, src, err) == [dst |-> dst, src |-> src, err |-> err]

Push_RefOnly(local, remote, parents, ref) ==
    IF ref \notin DOMAIN local.refs THEN Synced(remote, local, "ok")
    ELSE IF RefOf(remote, ref) \notin {0} \cup Reach(parents, local.refs[ref])
    THEN Synced(remote, local, "non_fast_forward")
    ELSE Synced([remote EXCEPT !.refs = SetReference(@, ref, local.refs[ref])],
                local, "ok")

\* Push(repo, remoteName, {ref}) with the refspec ref:ref: the remote ref
\* moves to the local one, with the objects it reaches, when that is a
\* fast-forward; nothing to push is no error.
Push(local, remote, parents, ref) ==
    IF ref \notin DOMAIN local.refs THEN Synced(remote, local, "ok")
    ELSE IF RefOf(remote, ref) \notin {0} \cup Reach(parents, local.refs[ref])
    THEN Synced(remote, local, "non_fast_forward")
    ELSE Synced([remote EXCEPT !.refs = SetReference(@, ref, local.refs[ref]),
                               !.objs = @ \cup Reach(parents, local.refs[ref])],
                local, "ok")

\* Fetch(repo, remoteName, {ref}, fastForwardOnly): the local ref and its
\* remote-tracking ref move to the remote one, with the objects it
\* reaches; nothing to fetch is no error.
Fetch(local, remote, parents, ref, fastForwardOnly) ==
    IF ref \notin DOMAIN remote.refs THEN Synced(local, remote, "ok")
    ELSE IF fastForwardOnly
            /\ RefOf(local, ref) \notin {0} \cup Reach(parents, remote.refs[ref])
    THEN Synced(local, remote, "non_fast_forward")
    ELSE Synced([local EXCEPT !.refs = SetReference(@, ref, remote.refs[ref]),
                              !.tracker = SetReference(@, ref, remote.refs[ref]),
                              !.objs = @ \cup Reach(parents, remote.refs[ref])],
                remote, "ok")

\* The clone of CloneAndFetch: a new repository holding the initial branch
\* (the remote's HEAD branch when none is named).
CloneRepo(remote, parents, initialBranch) ==
    LET branch == IF initialBranch = "" THEN HeadBranch ELSE initialBranch
    IN  IF branch \notin DOMAIN remote.refs
        THEN Synced(EmptyRepo, remote, "clone_failed")
        ELSE Fetch(EmptyRepo, remote, parents, branch, FALSE)

\* The fetch of CloneAndFetch: each requested ref in turn.
RECURSIVE FetchRefs(_, _, _, _)
FetchRefs(local, remote, parents, rs) ==
    IF rs = <<>> THEN Synced(local, remote, "ok")
    ELSE IF Fetch(local, remote, parents, Head(rs), TRUE).err # "ok"
    THEN Synced(local, remote, Fetch(local, remote, parents, Head(rs), TRUE).err)
    ELSE FetchRefs(Fetch(local, remote, parents, Head(rs), TRUE).dst, remote,
                   parents, Tail(rs))

CloneAndFetch(remote, parents, initialBranch, rs) ==
    IF CloneRepo(remote, parents, initialBranch).err # "ok"
    THEN CloneRepo(remote, parents, initialBranch)
    ELSE FetchRefs(CloneRepo(remote, parents, initialBranch).dst, remote, parents, rs)

NoCloneRunning == clone.pc \in {"idle", "done"}

\* gitinterface.Commit on a ref of one of the two repositories.
SyncCommit(side, ref) ==
    /\ NoCloneRunning
    /\ Len(sync.parents) < MaxSyncCommits
    /\ LET id == Len(sync.parents) + 1 IN
       sync' = [sync EXCEPT
                   !.parents = Append(@, RefOf(sync[side], ref)),
                   ![side].refs = SetReference(@, ref, id),
                   ![side].objs = @ \cup {id},
                   !.ret = NoSyncRet]
    /\ UNCHANGED <<pState, verifyResult, fpPc, fpPath, fpQueue, fpAllKeys, fpTrusted,
                   fpErr, fpSteps, fpCut, fpCutUsed, faResult, rootMeta, rootRet,
                   clone, diff, sig, vl, repoVars>>

PushCall(ref) ==
    /\ NoCloneRunning
    /\ sync' = [sync EXCEPT
                   !.remote = Push(sync.local, sync.remote, sync.parents, ref).dst,
                   !.ret = SyncRet("Push", ref, {ref},
                               Push(sync.local, sync.remote, sync.parents, ref).err,
                               IF ref \notin DOMAIN sync.local.refs THEN TRUE
                               ELSE RefOf(sync.remote, ref) = sync.local.refs[ref])]
    /\ UNCHANGED <<pState, verifyResult, fpPc, fpPath, fpQueue, fpAllKeys, fpTrusted,
                   fpErr, fpSteps, fpCut, fpCutUsed, faResult, rootMeta, rootRet,
                   clone, diff, sig, vl, repoVars>>

FetchCall(ref, fastForwardOnly) ==
    /\ NoCloneRunning
    /\ sync' = [sync EXCEPT
                   !.local = Fetch(sync.local, sync.remote, sync.parents, ref,
                                   fastForwardOnly).dst,
                   !.ret = SyncRet("Fetch", ref, {ref},
                               Fetch(sync.local, sync.remote, sync.parents, ref,
                                     fastForwardOnly).err,
                               IF ref \notin DOMAIN sync.remote.refs THEN TRUE
                               ELSE /\ RefOf(sync.local, ref) = sync.remote.refs[ref]
                                    /\ ref \in DOMAIN sync.local.tracker
                                    /\ sync.local.tracker[ref] = sync.remote.refs[ref])]
    /\ UNCHANGED <<pState, verifyResult, fpPc, fpPath, fpQueue, fpAllKeys, fpTrusted,
                   fpErr, fpSteps, fpCut, fpCutUsed, faResult, rootMeta, rootRet,
                   clone, diff, sig, vl, repoVars>>

\* CloneAndFetch into a new directory: the local repository is the new one.
CloneAndFetchCall(initialBranch, rs) ==
    /\ NoCloneRunning
    /\ sync.local = EmptyRepo
    /\ sync' = [sync EXCEPT
                   !.local = CloneAndFetch(sync.remote, sync.parents, initialBranch, rs).dst,
                   !.ret = SyncRet("CloneAndFetch",
                               IF initialBranch = "" THEN HeadBranch ELSE initialBranch,
                               Range(rs),
                               CloneAndFetch(sync.remote, sync.parents, initialBranch, rs).err,
                               FALSE)]
    /\ UNCHANGED <<pState, verifyResult, fpPc, fpPath, fpQueue, fpAllKeys, fpTrusted,
                   fpErr, fpSteps, fpCut, fpCutUsed, faResult, rootMeta, rootRet,
                   clone, diff, sig, vl, repoVars>>

\* Clone, line 58: what it returns for what VerifyRef returned.
CloneReturn_AlwaysNil(verifyErr) == "ok"
CloneReturn(verifyErr) == verifyErr

\* Clone, lines 27-41: the target directory must not exist; it is created.
CloneBegin(initialBranch, dirExists) ==
    /\ clone.pc = "idle"
    /\ sync.local = EmptyRepo
    /\ \E mkdirFails \in BOOLEAN :
         clone' = IF dirExists
                  THEN [clone EXCEPT !.pc = "done", !.dir = "exists",
                                     !.err = "cloning_failure"]
                  ELSE IF mkdirFails
                  THEN [clone EXCEPT !.pc = "done", !.err = "cloning_failure"]
                  ELSE [clone EXCEPT !.pc = "clone", !.dir = "created",
                                     !.branch = initialBranch]
    /\ sync' = [sync EXCEPT !.ret = NoSyncRet]
    /\ UNCHANGED <<pState, verifyResult, fpPc, fpPath, fpQueue, fpAllKeys, fpTrusted,
                   fpErr, fpSteps, fpCut, fpCutUsed, faResult, rootMeta, rootRet,
                   diff, sig, vl, repoVars>>

\* Clone, line 47: os.RemoveAll(dir) ("remove_failed": it returned an error
\* and the directory is still there).
RemoveAll(dir, removeFails) == IF removeFails THEN "remove_failed" ELSE "absent"

\* Clone, lines 45-51, first half of CloneAndFetch: the clone. On an
\* error the directory is removed.
CloneCloneStep ==
    /\ clone.pc = "clone"
    /\ \E ioFails \in BOOLEAN, removeFails \in BOOLEAN :
         IF ioFails \/ CloneRepo(sync.remote, sync.parents, clone.branch).err # "ok"
         THEN /\ clone' = [clone EXCEPT !.pc = "done",
                                        !.dir = RemoveAll(clone.dir, removeFails),
                                        !.err = "cloning_failure"]
              /\ UNCHANGED sync
         ELSE /\ clone' = [clone EXCEPT !.pc = "fetch", !.did = Append(@, "clone")]
              /\ sync' = [sync EXCEPT !.local =
                            CloneRepo(sync.remote, sync.parents, clone.branch).dst]
    /\ UNCHANGED <<pState, verifyResult, fpPc, fpPath, fpQueue, fpAllKeys, fpTrusted,
                   fpErr, fpSteps, fpCut, fpCutUsed, faResult, rootMeta, rootRet,
                   diff, sig, vl, repoVars>>

\* Clone, lines 43-51, second half of CloneAndFetch: the fetch of the RSL
\* ref and the policy ref. On an error the directory is removed.
CloneFetchStep ==
    /\ clone.pc = "fetch"
    /\ \E ioFails \in BOOLEAN, removeFails \in BOOLEAN :
         IF ioFails \/ FetchRefs(sync.local, sync.remote, sync.parents,
                                 <<RSLRef, PolicyRef>>).err # "ok"
         THEN /\ clone' = [clone EXCEPT !.pc = "done",
                                        !.dir = RemoveAll(clone.dir, removeFails),
                                        !.err = "cloning_failure"]
              /\ sync' = IF RemoveAll(clone.dir, removeFails) = "absent"
                         THEN [sync EXCEPT !.local = EmptyRepo] ELSE sync
         ELSE /\ clone' = [clone EXCEPT !.pc = "verify", !.did = Append(@, "fetch")]
              /\ sync' = [sync EXCEPT !.local =
                            FetchRefs(sync.local, sync.remote, sync.parents,
                                      <<RSLRef, PolicyRef>>).dst]
    /\ UNCHANGED <<pState, verifyResult, fpPc, fpPath, fpQueue, fpAllKeys, fpTrusted,
                   fpErr, fpSteps, fpCut, fpCutUsed, faResult, rootMeta, rootRet,
                   diff, sig, vl, repoVars>>

\* Clone, lines 52-58: HEAD is read (an error ends the call, the directory
\* stays) and VerifyRef runs on its target, in full; what it returns is what
\* Clone returns.
CloneVerifyStep ==
    /\ clone.pc = "verify"
    /\ \E headFails \in BOOLEAN, verifyErr \in {"ok", "verification_failed"} :
         clone' = IF headFails
                  THEN [clone EXCEPT !.pc = "done", !.err = "cloning_failure"]
                  ELSE [clone EXCEPT !.pc = "done", !.did = Append(@, "verify"),
                                     !.verified = verifyErr,
                                     !.err = CloneReturn(verifyErr)]
    /\ UNCHANGED <<pState, verifyResult, fpPc, fpPath, fpQueue, fpAllKeys, fpTrusted,
                   fpErr, fpSteps, fpCut, fpCutUsed, faResult, rootMeta, rootRet,
                   sync, diff, sig, vl, repoVars>>

InitSync == PolicyIdle /\ RepoIdle

NextSync ==
    \/ \E side \in {"local", "remote"}, ref \in SyncRefs : SyncCommit(side, ref)
    \/ \E ref \in BranchRefs : PushCall(ref)
    \/ \E ref \in BranchRefs, fastForwardOnly \in BOOLEAN : FetchCall(ref, fastForwardOnly)
    \/ \E initialBranch \in {"", "refs/heads/main"},
          rs \in {<<>>, <<"refs/heads/feature">>} :
          CloneAndFetchCall(initialBranch, rs)
    \/ \E initialBranch \in {"", "refs/heads/main"}, dirExists \in BOOLEAN :
          CloneBegin(initialBranch, dirExists)
    \/ CloneCloneStep
    \/ CloneFetchStep
    \/ CloneVerifyStep

SpecSync == InitSync /\ [][NextSync]_vars

\* C28: Clone clones, then fetches the RSL ref and the policy ref, then
\* verifies the target of HEAD, in that order, and returns no error only
\* if that verification succeeded.
C28_CloneThenFetchThenVerify ==
    /\ clone.did = SubSeq(<<"clone", "fetch", "verify">>, 1, Len(clone.did))
    /\ (clone.pc = "done" /\ clone.err = "ok")
       => clone.did = <<"clone", "fetch", "verify">> /\ clone.verified = "ok"
    /\ clone.pc = "verify"
       => /\ RefOf(sync.local, RSLRef) = RefOf(sync.remote, RSLRef)
          /\ RefOf(sync.local, PolicyRef) = RefOf(sync.remote, PolicyRef)

\* Reached: a Clone of a remote that has both gittuf refs returned no error.
C28_Witness ==
    /\ clone.pc = "done"
    /\ clone.err = "ok"
    /\ clone.did = <<"clone", "fetch", "verify">>
    /\ RefOf(sync.local, RSLRef) # 0
    /\ RefOf(sync.local, PolicyRef) # 0

\* The destination holds the ref at the source's value, with every commit
\* it reaches.
InSync(dst, src, ref) ==
    /\ RefOf(dst, ref) = RefOf(src, ref)
    /\ Reach(sync.parents, RefOf(src, ref)) \subseteq dst.objs

\* C29: after a successful Push of a ref the remote ref equals the local
\* one; after a successful Fetch the local ref and its remote-tracking ref
\* equal the remote one; after a successful CloneAndFetch the initial
\* branch and every requested ref equal the remote's; in each case the
\* commits the ref reaches are at the destination. A Push or Fetch with
\* nothing to transfer returns no error.
C29_SyncedRefsMatch ==
    /\ (sync.ret.op = "Push" /\ sync.ret.err = "ok"
           /\ sync.ret.ref \in DOMAIN sync.local.refs)
       => InSync(sync.remote, sync.local, sync.ret.ref)
    /\ (sync.ret.op = "Fetch" /\ sync.ret.err = "ok"
           /\ sync.ret.ref \in DOMAIN sync.remote.refs)
       => /\ InSync(sync.local, sync.remote, sync.ret.ref)
          /\ sync.ret.ref \in DOMAIN sync.local.tracker
          /\ sync.local.tracker[sync.ret.ref] = sync.remote.refs[sync.ret.ref]
    /\ (sync.ret.op = "CloneAndFetch" /\ sync.ret.err = "ok")
       => \A ref \in {sync.ret.ref} \cup sync.ret.refs :
              InSync(sync.local, sync.remote, ref)
    /\ (sync.ret.op \in {"Push", "Fetch"} /\ sync.ret.nothing)
       => sync.ret.err = "ok"

\* Reached: a push that had something to transfer moved the remote ref to
\* a local commit that has a parent.
C29_Witness ==
    /\ sync.ret.op = "Push"
    /\ sync.ret.err = "ok"
    /\ ~sync.ret.nothing
    /\ RefOf(sync.local, sync.ret.ref) # 0
    /\ sync.parents[RefOf(sync.local, sync.ret.ref)] # 0
    /\ RefOf(sync.remote, sync.ret.ref) = RefOf(sync.local, sync.ret.ref)

----------------------------------------------------------------------------
(* State.PublicKeys on verified states.                                    *)

\* The keys a targets document declares for its delegations.
DeclaredKeys(metadata) ==
    IF metadata.Delegations = None THEN {} ELSE metadata.Delegations[1].Keys

\* Every key associated with a state.
AllKeysOf(s) ==
    Range(s.RootPublicKeys)
    \cup GetRootMetadata(s).Keys
    \cup (IF s.TargetsEnvelope = None THEN {}
          ELSE DeclaredKeys(s.TargetsEnvelope[1].Payload))
    \cup UNION {DeclaredKeys(s.DelegationEnvelopes[n].Payload) :
                   n \in DOMAIN s.DelegationEnvelopes}

\* C30: on a verified state State.PublicKeys returns, without error, the
\* root public keys, the keys of the root metadata, the keys of the
\* top-level targets metadata's delegations and the keys of every delegated
\* targets metadata; a state with no targets envelope gets its root keys.
C30_PublicKeysComplete ==
    (fpPc = "keys" /\ verifyResult = "ok")
    => faResult = Answer(Some(AllKeysOf(pState)), "ok")

----------------------------------------------------------------------------
(* SpecDiff: the paths a commit changes (gitinterface).                    *)

\* The file names in git's order, and the blobs a file may hold.
DiffPaths == <<"a", "b", "c">>
BlobIDs == {"blob0", "blob1"}

PathIndex(path) == CHOOSE i \in 1..Len(DiffPaths) : DiffPaths[i] = path

\* A tree: file name -> blob.
GitTrees == UNION {[names -> BlobIDs] : names \in SUBSET Range(DiffPaths)}

\* sort.Slice on a list of distinct names.
RECURSIVE SortPaths(_)
SortPaths(names) ==
    IF names = {} THEN <<>>
    ELSE LET first == CHOOSE p \in names :
                          \A q \in names : PathIndex(p) <= PathIndex(q)
         IN  <<first>> \o SortPaths(names \ {first})

\* GetCommitFilePaths: every file of the commit's tree.
GetCommitFilePaths(tree) == SortPaths(DOMAIN tree)

\* The tree diff: one change per name that is in one tree only or holds a
\* different blob in each; a side the name is missing from has the empty
\* name. A rename is a deletion and an insertion.
RECURSIVE DiffTree(_, _, _)
DiffTree(treeA, treeB, i) ==
    IF i > Len(DiffPaths) THEN <<>>
    ELSE LET p == DiffPaths[i]
             inA == p \in DOMAIN treeA
             inB == p \in DOMAIN treeB
             change ==
                 IF inA /\ inB
                 THEN IF treeA[p] # treeB[p] THEN <<[From |-> p, To |-> p]>> ELSE <<>>
                 ELSE IF inA THEN <<[From |-> p, To |-> ""]>>
                 ELSE IF inB THEN <<[From |-> "", To |-> p]>>
                 ELSE <<>>
         IN  change \o DiffTree(treeA, treeB, i + 1)

\* Every name of every change, as a list (a modified file is named twice).
RECURSIVE ChangeNames(_)
ChangeNames(changes) ==
    IF changes = <<>> THEN <<>>
    ELSE (IF Head(changes).From # "" THEN <<Head(changes).From>> ELSE <<>>)
         \o (IF Head(changes).To # "" THEN <<Head(changes).To>> ELSE <<>>)
         \o ChangeNames(Tail(changes))

GetDiffFilePaths_Listed(treeA, treeB) == ChangeNames(DiffTree(treeA, treeB, 1))

\* GetDiffFilePaths: the names of the changes collected in a set, sorted.
GetDiffFilePaths(treeA, treeB) ==
    SortPaths(Range(ChangeNames(DiffTree(treeA, treeB, 1))))

\* GetFilePathsChangedByCommit: all files without a parent, else the diff
\* against the first parent.
GetFilePathsChangedByCommit(tree, parents) ==
    IF parents = <<>> THEN GetCommitFilePaths(tree)
    ELSE GetDiffFilePaths(tree, parents[1])

GetFilePathsChangedByCommitCall ==
    /\ diff.ret = None
    /\ diff' = [diff EXCEPT !.ret = Some(GetFilePathsChangedByCommit(diff.tree, diff.parents))]
    /\ UNCHANGED <<pState, verifyResult, fpPc, fpPath, fpQueue, fpAllKeys, fpTrusted,
                   fpErr, fpSteps, fpCut, fpCutUsed, faResult, rootMeta, rootRet,
                   sync, clone, sig, vl, repoVars>>

\* A commit with up to two parents, over every tree.
InitDiff ==
    /\ PolicyQuiet /\ SigIdle /\ VerifyIdle /\ RepoIdle
    /\ \E tree \in GitTrees :
         \E parents \in {<<>>} \cup {<<t1>> : t1 \in GitTrees}
                          \cup {<<t1, t2>> : t1 \in GitTrees, t2 \in {<<>>, [a |-> "blob0"]}} :
            diff = [tree |-> tree, parents |-> parents, ret |-> None]

NextDiff == GetFilePathsChangedByCommitCall

SpecDiff == InitDiff /\ [][NextDiff]_vars

\* The names that differ between two trees.
Differing(treeA, treeB) ==
    {p \in Range(DiffPaths) :
        \/ (p \in DOMAIN treeA) # (p \in DOMAIN treeB)
        \/ p \in DOMAIN treeA /\ p \in DOMAIN treeB /\ treeA[p] # treeB[p]}

StrictlySorted(paths) ==
    \A i, j \in 1..Len(paths) : i < j => PathIndex(paths[i]) < PathIndex(paths[j])

\* C31: GetFilePathsChangedByCommit returns a sorted list without
\* duplicates that holds exactly the paths differing between the commit's
\* tree and its first parent's tree (added, deleted, modified; a rename gives
\* the old and the new path), and every path of the tree when the commit has
\* no parent.
C31_ChangedPaths ==
    diff.ret # None
    => /\ StrictlySorted(diff.ret[1])
       /\ Range(diff.ret[1]) =
             IF diff.parents = <<>> THEN DOMAIN diff.tree
             ELSE Differing(diff.tree, diff.parents[1])

\* A rename of a to b next to a modified c, on a commit with a parent.
C31_Witness ==
    /\ diff.ret = Some(<<"a", "b", "c">>)
    /\ diff.parents # <<>>
    /\ DOMAIN diff.tree = {"b", "c"}
    /\ DOMAIN diff.parents[1] = {"a", "c"}
    /\ diff.tree["b"] = diff.parents[1]["a"]

----------------------------------------------------------------------------
(* The specified delegation traversal, and the resolver against it.        *)

\* A roles list without its trailing allow-rule entry, if it has one.
ExcludingAllowRule(roles) ==
    IF roles # <<>> /\ roles[Len(roles)].Name = AllowRuleName
    THEN AllButLast(roles) ELSE roles

\* The traversal as specified: pop the front of the queue, stop at an
\* allow-rule entry, add the keys of a matching delegation and continue in
\* its metadata, ahead of the queue or, when it is terminating, instead of
\* it. The result is the set of trusted keys ("diverges": still running
\* after fuel pops).
RECURSIVE SpecifiedTraversal(_, _, _, _, _, _)
SpecifiedTraversal(s, path, queue, keysByID, trusted, fuel) ==
    IF queue = <<>> THEN Answer(Some(trusted), "ok")
    ELSE IF fuel = 0 THEN Answer(None, "diverges")
    ELSE
      LET d == Head(queue)
      IN
      IF d.Name = AllowRuleName THEN Answer(Some(trusted), "ok")
      ELSE IF ~Matches(d, path)
      THEN SpecifiedTraversal(s, path, Tail(queue), keysByID, trusted, fuel - 1)
      ELSE
        LET own == trusted \cup Range(KeysOf(keysByID, d.KeyIDs))
        IN
        IF d.Name \notin DOMAIN s.DelegationEnvelopes
        THEN SpecifiedTraversal(s, path, Tail(queue), keysByID, own, fuel - 1)
        ELSE
          LET sub == s.DelegationEnvelopes[d.Name].Payload
              children == ExcludingAllowRule(RolesOf(sub))
              merged == keysByID \cup (IF sub.Delegations = None THEN {}
                                       ELSE sub.Delegations[1].Keys)
          IN  SpecifiedTraversal(s, path,
                                 IF d.Terminating THEN children
                                 ELSE children \o Tail(queue),
                                 merged, own, fuel - 1)

TraversalOf(s, path) ==
    SpecifiedTraversal(s, path, ExcludingAllowRule(TopRoles(s)),
                       s.TargetsEnvelope[1].Payload.Delegations[1].Keys, {},
                       MaxSteps + 1)

\* C32: whenever FindPublicKeysForPath returns keys on a verified state,
\* they are the keys of the specified traversal, which skips only a
\* delegation named allow-rule: a delegation that is the last or the only
\* entry of its list is matched and contributes its keys like any other.
C32_SkipsOnlyAllowRule ==
    (fpPc = "done" /\ fpErr = "ok" /\ verifyResult = "ok")
    => Answer(Some(Range(fpTrusted)), "ok") = TraversalOf(pState, fpPath)

----------------------------------------------------------------------------
(* Leaf targets documents.                                                 *)

\* A delegated targets document without delegations or with no roles.
IsLeafDocument(metadata) ==
    metadata.Delegations = None \/ metadata.Delegations[1].Roles = <<>>

LeafNames(s) ==
    {n \in DOMAIN s.DelegationEnvelopes : IsLeafDocument(s.DelegationEnvelopes[n].Payload)}

\* C33: on a verified state that holds a delegated targets document whose
\* delegations are absent or whose roles list is empty, the document counts
\* as having no children: FindPublicKeysForPath and
\* FindAuthorizedSigningKeyIDs return normally, with keys or
\* delegation_not_found, and never crash.
C33_LeafHasNoChildren ==
    (verifyResult = "ok" /\ LeafNames(pState) # {})
    => /\ fpPc = "done" => fpErr = "ok"
       /\ fpPc = "answered" => faResult.err \in {"ok", "delegation_not_found"}

----------------------------------------------------------------------------
(* The authorized signers of a role.                                       *)

\* The first delegation named roleName, breadth first from the queue; the
\* metadata of a name is expanded once.
RECURSIVE FirstDelegationNamed(_, _, _, _)
FirstDelegationNamed(s, roleName, queue, expanded) ==
    IF queue = <<>> THEN Answer(None, "delegation_not_found")
    ELSE
      LET d == Head(queue)
      IN
      IF d.Name = roleName THEN Answer(Some(d.KeyIDs), "ok")
      ELSE IF d.Name \in DOMAIN s.DelegationEnvelopes /\ d.Name \notin expanded
      THEN FirstDelegationNamed(s, roleName,
               Tail(queue) \o RolesOf(s.DelegationEnvelopes[d.Name].Payload),
               expanded \cup {d.Name})
      ELSE FirstDelegationNamed(s, roleName, Tail(queue), expanded)

AuthorizedSigners(s, roleName) ==
    IF roleName \in {RootRoleName, TargetsRoleName}
    THEN IF roleName \in DOMAIN GetRootMetadata(s).Roles
         THEN Answer(Some(GetRootMetadata(s).Roles[roleName].KeyIDs), "ok")
         ELSE Answer(None, "delegation_not_found")
    ELSE FirstDelegationNamed(s, roleName, TopRoles(s), {})

\* C34: on a verified state FindAuthorizedSigningKeyIDs returns the root
\* role's key ids for root, the targets role's key ids for targets, and
\* otherwise the key ids of the first delegation of that name found breadth
\* first from the top-level targets metadata; it returns
\* delegation_not_found when there is none, also when the state has no
\* targets envelope and when delegated metadata name each other in a cycle.
C34_AuthorizedSigners ==
    [][(fpPc = "idle" /\ fpPc' = "answered" /\ verifyResult = "ok")
       => \A roleName \in RoleNames :
             faResult' = FindAuthorizedSigningKeyIDs(pState, roleName)
             => faResult' = AuthorizedSigners(pState, roleName)]_vars

----------------------------------------------------------------------------
(* The keys the resolver returns.                                          *)

\* Every delegation entry of the state's targets documents.
AllDelegationEntries(s) ==
    Range(TopRoles(s))
    \cup UNION {Range(RolesOf(s.DelegationEnvelopes[n].Payload)) :
                   n \in DOMAIN s.DelegationEnvelopes}

\* C35: every element of the list FindPublicKeysForPath returns is a
\* non-null key that a delegation matching the path lists in its key ids and
\* that a keys map of the metadata traversed declares; the keys of
\* delegations that do not match the path are not returned; no key is in the
\* list twice.
C35_TrustedKeysAreKeys ==
    (fpPc = "done" /\ fpErr = "ok" /\ verifyResult = "ok")
    => /\ \A i \in DOMAIN fpTrusted :
             /\ fpTrusted[i] # NoKey
             /\ fpTrusted[i] \in fpAllKeys
             /\ \E d \in AllDelegationEntries(pState) :
                   Matches(d, fpPath) /\ fpTrusted[i] \in Range(d.KeyIDs)
       /\ \A i, j \in DOMAIN fpTrusted : fpTrusted[i] = fpTrusted[j] => i = j

----------------------------------------------------------------------------
(* SpecVerify: State.Verify, one iteration of its loop per step.           *)

\* Lines 713-777, what Verify does before its loop: a verdict, or "loop".
VerifyBeforeLoop(s) ==
    LET rootMetadata == GetRootMetadata(s)
        targetsRole == RoleOf(rootMetadata, TargetsRoleName)
        targetsVerifiers == KeysOf(rootMetadata.Keys, targetsRole.KeyIDs)
    IN
    IF VerifyEnvelope(s.RootEnvelope, s.RootPublicKeys, RootThreshold(s)) # "ok"
    THEN "below_threshold"
    ELSE IF s.TargetsEnvelope = None THEN "ok"
    ELSE IF NewSignerVerifiers(targetsVerifiers) # "ok" THEN "err_key"
    ELSE IF VerifyEnvelope(s.TargetsEnvelope[1], targetsVerifiers,
                           targetsRole.Threshold) # "ok"
    THEN "below_threshold"
    ELSE IF DOMAIN s.DelegationEnvelopes = {} THEN "ok"
    ELSE IF Validate(s.TargetsEnvelope[1].Payload) # "ok" THEN "err_validate"
    ELSE IF s.TargetsEnvelope[1].Payload.Delegations = None THEN "panic"
    ELSE "loop"

VerifyReturn(v, result) == [v EXCEPT !.pc = "done", !.result = result]

\* Line 798 left out: the envelope stays in the map.
DeleteEnvelope_Kept(envelopes, name) == envelopes

\* Line 798: delete(delegationEnvelopes, delegation.Name).
DeleteEnvelope(envelopes, name) == [n \in DOMAIN envelopes \ {name} |-> envelopes[n]]

\* Lines 785-837: one iteration of the loop, and lines 839-843 after it.
VerifyIteration(v) ==
    IF v.queue = <<>>
    THEN VerifyReturn(v, IF DOMAIN v.envelopes # {} THEN "dangling" ELSE "ok")
    ELSE
      LET delegation == Head(v.queue)
          rest == Tail(v.queue)
      IN
      IF delegation.Name \notin DOMAIN v.envelopes
      THEN [v EXCEPT !.queue = rest]
      ELSE
        LET delegationEnvelope == v.envelopes[delegation.Name]
            verifiers == KeysOf(v.keys, delegation.KeyIDs)
            delegationMetadata == delegationEnvelope.Payload
            popped == [v EXCEPT !.queue = rest,
                                !.envelopes = DeleteEnvelope(v.envelopes, delegation.Name),
                                !.consumed = Append(v.consumed, delegation.Name)]
        IN
        IF NewSignerVerifiers(verifiers) # "ok" THEN VerifyReturn(popped, "err_key")
        ELSE IF VerifyEnvelope(delegationEnvelope, verifiers, delegation.Threshold) # "ok"
        THEN VerifyReturn(popped, "below_threshold")
        ELSE IF Validate(delegationMetadata) # "ok"
        THEN VerifyReturn(popped, "err_validate")
        ELSE IF delegationMetadata.Delegations = None THEN popped
        ELSE [popped EXCEPT
                 !.queue = rest \o delegationMetadata.Delegations[1].Roles,
                 !.keys = v.keys \cup delegationMetadata.Delegations[1].Keys]

VerifyBegin ==
    /\ vl.pc = "idle"
    /\ vl' = IF VerifyBeforeLoop(pState) # "loop"
             THEN VerifyReturn(vl, VerifyBeforeLoop(pState))
             ELSE [vl EXCEPT
                      !.pc = "loop",
                      !.queue = pState.TargetsEnvelope[1].Payload.Delegations[1].Roles,
                      !.envelopes = pState.DelegationEnvelopes,
                      !.keys = pState.TargetsEnvelope[1].Payload.Delegations[1].Keys]
    /\ UNCHANGED <<pState, verifyResult, fpPc, fpPath, fpQueue, fpAllKeys, fpTrusted,
                   fpErr, fpSteps, fpCut, fpCutUsed, faResult, rootMeta, rootRet,
                   sync, clone, diff, sig, repoVars>>

VerifyLoopStep ==
    /\ vl.pc = "loop"
    /\ vl' = VerifyIteration(vl)
    /\ UNCHANGED <<pState, verifyResult, fpPc, fpPath, fpQueue, fpAllKeys, fpTrusted,
                   fpErr, fpSteps, fpCut, fpCutUsed, faResult, rootMeta, rootRet,
                   sync, clone, diff, sig, repoVars>>

\* Verify is called on any state of the bounded families.
InitVerify == InitPolicy

NextVerify == VerifyBegin \/ VerifyLoopStep

\* A call that has started keeps running until it returns.
SpecVerify == InitVerify /\ [][NextVerify]_vars /\ WF_vars(NextVerify)

\* The stepwise loop gives the verdict of Verify.
VerifyLoopAgrees == vl.pc = "done" => vl.result = Verify(pState)

ConsumedOnce ==
    \A i, j \in DOMAIN vl.consumed : vl.consumed[i] = vl.consumed[j] => i = j

\* C36: State.Verify terminates on every state, also when delegated
\* metadata name each other in a cycle or name themselves: each delegation
\* envelope is consumed and verified at most once, and the call returns.
C36_VerifyTerminates == []ConsumedOnce /\ <>(vl.pc = "done")

\* Verify returned on a state where A's metadata delegates to B and B's to A.
C36_Witness ==
    /\ vl.pc = "done"
    /\ vl.consumed = <<"A", "B">>
    /\ \E d \in Range(RolesOf(pState.DelegationEnvelopes["B"].Payload)) : d.Name = "A"
    /\ \E d \in Range(RolesOf(pState.DelegationEnvelopes["A"].Payload)) : d.Name = "B"

----------------------------------------------------------------------------
(* SpecNamespace: InitializeNamespace next to a concurrent State.Commit.   *)

\* Two callers; each may initialise the namespace or commit a policy state
\* at any time, and their reads and writes of references interleave.
StepNamespace(c) ==
    \/ InitializeNamespaceCheck(c)
    \/ InitializeNamespaceSet(c)
    \/ \E s \in {RootOnlyState, ScenarioState} : StateCommitBegin(c, s)
    \/ GitCommitRead(c)
    \/ GitCommitSetEmpty(c)
    \/ GitCommitReread(c)
    \/ GitApplyCommit(c)

NextNamespace == \E c \in Callers : StepNamespace(c)

SpecNamespace == Init /\ [][NextNamespace]_vars

\* C37: the write of InitializeNamespace never moves the policy ref from a
\* non-zero hash back to the zero hash, whatever a concurrent State.Commit
\* did since InitializeNamespace checked the ref: the check and the write act
\* as one compare-and-set.
C37_InitNeverResets ==
    [][\A c \in Callers :
          (pc[c] = "ns_set" /\ pc'[c] = "idle" /\ PolicyRefIsSet)
          => refs'[PolicyRef] # ZeroHash]_vars

----------------------------------------------------------------------------
(* SpecEntries: loading a policy state from every kind of RSL entry.       *)

\* The log gets reference entries for the policy ref and for a branch, and
\* annotations; a state is loaded from any of them.
StepEntries(c) ==
    \/ InitializeNamespaceCheck(c)
    \/ InitializeNamespaceSet(c)
    \/ \E s \in CandidateStates : StateCommitBegin(c, s)
    \/ BranchCommitBegin(c, "refs/heads/main")
    \/ RSLAppendBegin(c, "refs/heads/main")
    \/ \E rslEntryID \in DOMAIN commits : AnnotationAppendBegin(c, rslEntryID)
    \/ GitCommitRead(c)
    \/ GitCommitSetEmpty(c)
    \/ GitCommitReread(c)
    \/ GitApplyCommit(c)
    \/ \E id \in DOMAIN commits : LoadStateForEntryCall(c, id)
    \/ \E id \in DOMAIN commits : LoadStateCall(c, id)

NextEntries == \E c \in SeqCallers : StepEntries(c)

SpecEntries == InitLoad /\ [][NextEntries]_vars

\* C38: LoadStateForEntry and LoadState load a policy state only from a
\* reference entry for the policy ref: an annotation gives ErrNotRSLEntry, a
\* reference entry for another ref gives rsl_entry_does_not_match_ref, every
\* state returned has passed State.Verify, and with an error no state is
\* returned.
C38_OnlyPolicyEntriesLoad ==
    \A c \in Callers :
        (ret[c].op \in {"LoadStateForEntry", "LoadState"} /\ ret[c].arg \in Entries)
        => /\ commits[ret[c].arg].kind = "rsl_annot" => ret[c].err = "not_rsl_entry"
           /\ (commits[ret[c].arg].kind = "rsl_ref"
               /\ commits[ret[c].arg].refName # PolicyRef)
              => ret[c].err = "rsl_entry_does_not_match_ref"
           /\ ret[c].err # "ok" => ret[c].state = None
           /\ ret[c].state # None
              => /\ ret[c].err = "ok"
                 /\ IsPolicyEntry(ret[c].arg)
                 /\ Verify(ret[c].state[1]) = "ok"

\* LoadState was refused on an annotation of a log that also holds a
\* reference entry for a branch and a policy entry whose state does not
\* verify.
C38_Witness ==
    \E c \in Callers :
        /\ ret[c].op = "LoadState"
        /\ ret[c].arg \in Entries
        /\ commits[ret[c].arg].kind = "rsl_annot"
        /\ ret[c].err = "not_rsl_entry"
        /\ \E id \in Entries : commits[id].kind = "rsl_ref" /\ commits[id].refName # PolicyRef
        /\ \E id \in Entries : IsPolicyEntry(id) /\ LoadStateForEntry(id).err = "below_threshold"

----------------------------------------------------------------------------
(* SpecSig: gitinterface.VerifyCommitSignature.                            *)

GPGKeyType == "gpg"
FulcioKeyType == "sigstore-oidc"
KeyTypes == {GPGKeyType, FulcioKeyType, "ed25519"}

\* What a commit carries as its signature: nothing, bytes that are no
\* signature, or a PGP or gitsign signature made with a key, whose identity
\* may have expired.
CommitSignatures ==
    {None} \cup {Some([method |-> m, by |-> k, expired |-> e]) :
                    m \in {"pgp", "gitsign", "garbage"}, k \in Keys, e \in BOOLEAN}

\* Why a signature of the given method does not verify under a key ("ok":
\* it does); a wrong key is ErrIncorrectVerificationKey.
VerificationCause(signature, method, key) ==
    IF signature = None THEN "malformed"
    ELSE IF signature[1].method # method THEN "malformed"
    ELSE IF signature[1].by # key.KeyID THEN "incorrect_verification_key"
    ELSE IF signature[1].expired THEN "expired_identity"
    ELSE "ok"

\* commit.Verify(armoredKey): an error, whatever its cause, or none.
CommitVerify(signature, key) == VerificationCause(signature, "pgp", key)

\* verifyGitsignSignature over the commit bytes without signature.
verifyGitsignSignature(signature, key) == VerificationCause(signature, "gitsign", key)

\* Lines 84-103.
VerifyCommitSignature(signature, key) ==
    IF key.KeyType = GPGKeyType
    THEN IF CommitVerify(signature, key) # "ok" THEN "incorrect_verification_key"
         ELSE "ok"
    ELSE IF key.KeyType = FulcioKeyType THEN verifyGitsignSignature(signature, key)
    ELSE "unknown_signing_method"

VerifyCommitSignatureCall ==
    /\ sig.ret = "none"
    /\ sig' = [sig EXCEPT !.ret = VerifyCommitSignature(sig.signature, sig.key)]
    /\ UNCHANGED <<pState, verifyResult, fpPc, fpPath, fpQueue, fpAllKeys, fpTrusted,
                   fpErr, fpSteps, fpCut, fpCutUsed, faResult, rootMeta, rootRet,
                   sync, clone, diff, vl, repoVars>>

InitSig ==
    /\ PolicyQuiet /\ DiffIdle /\ VerifyIdle /\ RepoIdle
    /\ \E signature \in CommitSignatures, keyType \in KeyTypes, keyID \in Keys :
          sig = [signature |-> signature, key |-> [KeyType |-> keyType, KeyID |-> keyID],
                 ret |-> "none"]

NextSig == VerifyCommitSignatureCall

SpecSig == InitSig /\ [][NextSig]_vars

\* C39: VerifyCommitSignature returns success only when the signature
\* verifies under the given key and reports each cause of failure as a
\* verdict of its own (wrong key, malformed signature, expired identity,
\* unknown signing method): a gpg key is checked with PGP verification, a
\* fulcio key as a Sigstore signature, and a key of any other type gives
\* unknown_signing_method.
C39_TypedVerdicts ==
    sig.ret # "none"
    => sig.ret = IF sig.key.KeyType = GPGKeyType
                 THEN VerificationCause(sig.signature, "pgp", sig.key)
                 ELSE IF sig.key.KeyType = FulcioKeyType
                 THEN VerificationCause(sig.signature, "gitsign", sig.key)
                 ELSE "unknown_signing_method"

----------------------------------------------------------------------------
(* Clone and the target directory.                                         *)

\* C40: a failing Clone leaves the filesystem as it found it. When the
\* target directory is already there Clone returns cloning_failure and
\* touches nothing in it; when the clone-and-fetch step fails after Clone
\* created the directory, Clone returns cloning_failure with the directory
\* removed again (unless the removal itself failed, which the error reports
\* too).
C40_FailedCloneCleansUp ==
    [][(clone.pc # "done" /\ clone'.pc = "done" /\ clone'.err # "ok")
       => /\ clone'.dir \in {"exists", "absent", "remove_failed"}
          /\ clone'.dir = "exists"
             => /\ clone'.err = "cloning_failure"
                /\ clone'.did = <<>>
                /\ sync'.local = sync.local
          /\ clone.pc \in {"clone", "fetch"}
             => /\ clone'.err = "cloning_failure"
                /\ clone'.dir \in {"absent", "remove_failed"}
                /\ clone'.dir = "absent" => sync'.local = EmptyRepo]_vars

====
